---- MODULE Spec2Model ----
(***************************************************************************)
(* Verification model of the betterLiyl/web3 repository.                   *)
(*                                                                         *)
(* The repository is a set of independent programs, so the model is a set  *)
(* of independent state machines over disjoint groups of variables, each   *)
(* with its own specification:                                             *)
(*   SpecVote   projects/vote        (voting program)                      *)
(*   SpecFav    projects/favorites   (favorite program)                    *)
(*   SpecChain  projects/transfer    (chain program)                       *)
(*   SpecHttp   8_task_mediate_simple.rs  HttpClient::send                 *)
(*   SpecPool   8_task_mediate_simple.rs  ConnectionPool                   *)
(*   SpecReq    8_task_mediate_simple.rs  HttpRequest / AuthMiddleware     *)
(*   SpecBuilder  8_task_mediate_simple.rs  HttpClientBuilder               *)
(*   SpecMem      7_task_basic.rs  MemoryPool / MemoryHandle               *)
(*   SpecLogger   7_task_basic.rs  Logger                                  *)
(*   SpecQueue, SpecSkipList, SpecBloom   9_data_structure.rs              *)
(*   SpecCounter  6_advanced_features.rs  shared_state                     *)
(*   SpecChannel  6_advanced_features.rs  message_passing                  *)
(*   SpecBook     5_exercises.rs  Book                                     *)
(* Every action leaves the variables of the other machines unchanged.      *)
(***************************************************************************)
EXTENDS Integers, Sequences, FiniteSets, Bags, TLC

VARIABLES
    \* ---- voting program
    polls,          \* poll_id -> Poll account (or NoAccount)
    candidates,     \* <<poll_id, candidate>> -> CandidateAccount (or NoAccount)
    voteLast,       \* the last instruction executed, its inputs, result and pre-state
    \* ---- favorite program
    favorites,      \* user -> Favorite account (or NoAccount)
    favLast,        \* the last instruction executed
    favRecent,      \* user -> arguments of the user's most recent call
    favRecentOk,    \* user -> arguments of the user's most recent successful call
    \* ---- chain program
    lamports,       \* account key -> balance
    owner,          \* account key -> owning program
    space,          \* account key -> data length
    events,         \* the BalanceEvents emitted so far
    chainLast,      \* the last instruction executed, its inputs, result and pre-state
    walletCalls,    \* every <<payer, seed, wallet address>> a create_wallet call addressed
    \* ---- HttpRequest / AuthMiddleware
    req,            \* the HttpRequest being built (or NoRequest)
    resp,           \* an HttpResponse (or NoResponse)
    reqLast,        \* the last operation, its inputs, return value and pre-state
    \* ---- ConnectionPool shared by concurrent tasks
    pool,           \* the ConnectionPool (or NoPool): max_connections and the semaphore's permits
    guards,         \* task -> number of live ConnectionGuards the task owns
    waiters,        \* tasks suspended in pool.acquire().await, in the order they called
    granted,        \* suspended tasks a dropped guard's permit has been handed to
    poolLast,       \* the last pool operation (`waited`: a pending acquire was involved)
    \* ---- HttpClient::send
    sendClient,     \* the HttpClient the call in progress runs on
    sendCall,       \* the call in progress: position, request, attempt, history, result
    \* ---- HttpClientBuilder
    builder,        \* the HttpClientBuilder being configured (or NoBuilder once build consumed it)
    builtClient,    \* the HttpClient the last build returned (or NoClient)
    builderCalls,   \* the builder methods called since HttpClientBuilder::new, in order
    \* ---- MemoryPool / MemoryHandle
    memPool,        \* the MemoryPool inside the Rc<RefCell<..>>: blocks, next_id, total_allocated
    memHandles,     \* the bag of live MemoryHandles
    memBorrow,      \* the RefCell borrow the caller is holding: "none", "shared" or "mut"
    memLast,        \* the last operation, its inputs, result and the pool before it
    \* ---- Logger
    logConfig,      \* the LogConfig behind Arc<Mutex<..>>
    logQueue,       \* the mpsc channel: LogMessages sent and not yet received
    logSent,        \* every LogMessage sent so far, in send order
    logProcessed,   \* the entries the worker has processed, in order
    logWorker,      \* the worker thread: "running", "stopped" (left its loop) or "killed"
    logLogger,      \* the Logger value: "alive", "shutdown" (consumed by shutdown) or "dropped"
    logCalls,       \* thread -> position of its log call: idle or about to send an entry
    logInForce,     \* min_level of the configuration the last update_config installed
    logLast,        \* the last Logger operation, its inputs and result
    \* ---- Queue
    queueData,      \* Queue.data
    queueLast,      \* the last Queue operation, its argument, return value and the data before it
    \* ---- SkipList
    skipData,       \* SkipList.data
    skipInserted,   \* the items insert has been called with so far
    skipLast,       \* the last SkipList operation, its argument, return value and the data before it
    \* ---- BloomFilter
    bloom,          \* the BloomFilter: data (the Vec<bool>) and size
    bloomInits,     \* the sizes init has been called with so far
    bloomPanicked,  \* an index out of bounds has ended the program
    bloomLast,      \* the last BloomFilter operation, its argument, index and result
    \* ---- shared_state: ten threads and one Arc<Mutex<i32>>
    counterValue,   \* the i32 inside the Mutex
    counterHolder,  \* the thread holding the MutexGuard (0: nobody)
    counterThreads, \* thread -> its position and the value it read through its guard
    counterMain,    \* main: its position in spawn / join / print, loop index and the value printed
    \* ---- message_passing: two sender threads and one channel
    chanQueue,      \* the channel: values sent and not yet received
    chanSenders,    \* sender -> its position: next value to send, sleeping or not, done
    chanReceived,   \* the values the receiving loop has got, in order
    chanReceiver,   \* the receiving loop: "running" or "done"
    \* ---- 5_exercises.rs: Book
    book,           \* the Book value (or NoBook before Book::new)
    bookArgs,       \* the arguments of the Book::new call that made it
    bookOnLoan,     \* a borrow_book has returned Ok(()) and no return_book has followed
    bookLast        \* the last Book operation, its return value, the book and bookOnLoan before it

voteVars  == <<polls, candidates, voteLast>>
favVars   == <<favorites, favLast, favRecent, favRecentOk>>
chainVars == <<lamports, owner, space, events, chainLast, walletCalls>>
reqVars   == <<req, resp, reqLast>>
poolVars  == <<pool, guards, waiters, granted, poolLast>>
sendVars  == <<sendClient, sendCall>>
builderVars == <<builder, builtClient, builderCalls>>
memVars   == <<memPool, memHandles, memBorrow, memLast>>
logVars   == <<logConfig, logQueue, logSent, logProcessed, logWorker, logLogger, logCalls, logInForce, logLast>>
queueVars == <<queueData, queueLast>>
skipVars  == <<skipData, skipInserted, skipLast>>
bloomVars == <<bloom, bloomInits, bloomPanicked, bloomLast>>
counterVars == <<counterValue, counterHolder, counterThreads, counterMain>>
chanVars  == <<chanQueue, chanSenders, chanReceived, chanReceiver>>
bookVars  == <<book, bookArgs, bookOnLoan, bookLast>>
vars == <<voteVars, favVars, chainVars, reqVars, poolVars, sendVars, builderVars, memVars, logVars, queueVars, skipVars, bloomVars, counterVars, chanVars, bookVars>>

(***************************************************************************)
(* Integer widths.  The program's u64 / i64 are modelled with WordBits     *)
(* bits instead of 64 (TLC's integers are 32 bits wide); the cast keeps    *)
(* its two's-complement meaning at that width.                             *)
(***************************************************************************)
WordBits == 16
U64Max == 2^WordBits - 1
I64Max == 2^(WordBits - 1) - 1

\* `x as i64` for a u64 x: reinterpretation of the bit pattern.
AsI64(x) == IF x > I64Max THEN x - 2^WordBits ELSE x

NoAccount == [exists |-> FALSE]

(***************************************************************************)
(*                          voting program                                 *)
(***************************************************************************)
MaxVotes == 2

PollIds        == {1}
CandidateNames == {"a", "b"}
PollNames      == {"poll"}
PollDescs      == {"d"}
\* start / end (u64) and Clock::get()?.unix_timestamp (i64) values.
U64Samples     == {0, 1, 2, I64Max + 1, U64Max}
TimeSamples    == {0, 1, 2, 3, I64Max}

CandidateKeys == PollIds \X CandidateNames

VoteInit ==
    /\ polls = [p \in PollIds |-> NoAccount]
    /\ candidates = [k \in CandidateKeys |-> NoAccount]
    /\ voteLast = [op |-> "none", poll_id |-> 0, candidate |-> "", time |-> 0,
                   result |-> "none", prePolls |-> polls, preCands |-> candidates]

VoteRecord(op, p, c, t, r) ==
    [op |-> op, poll_id |-> p, candidate |-> c, time |-> t, result |-> r,
     prePolls |-> polls, preCands |-> candidates]

\* initialize_poll: the poll account is created if needed (init_if_needed) and
\* every field is written.
initialize_poll(poll_id, start, end, name, desc) ==
    /\ polls' = [polls EXCEPT ![poll_id] =
                    [exists |-> TRUE, poll_name |-> name, poll_desc |-> desc,
                     poll_vote_start |-> start, poll_vote_end |-> end,
                     poll_vote_index |-> 0]]
    /\ voteLast' = VoteRecord("initialize_poll", poll_id, "", 0, "Ok")
    /\ UNCHANGED candidates

\* initialize_candidate: poll_account must be an initialized Poll; the candidate
\* account is created zeroed if needed and its name written.  poll_account is
\* not declared `mut`, so the increment of poll_vote_index is made on the
\* in-memory copy only and is not written back on exit.
initialize_candidate(poll_id, candidate) ==
    /\ IF polls[poll_id].exists
          THEN /\ candidates' = [candidates EXCEPT ![<<poll_id, candidate>>] =
                      [exists |-> TRUE, candidate_name |-> candidate,
                       candidate_votes |-> IF candidates[<<poll_id, candidate>>].exists
                                              THEN candidates[<<poll_id, candidate>>].candidate_votes
                                              ELSE 0]]
               /\ voteLast' = VoteRecord("initialize_candidate", poll_id, candidate, 0, "Ok")
          ELSE /\ UNCHANGED candidates
               /\ voteLast' = VoteRecord("initialize_candidate", poll_id, candidate, 0,
                                         "AccountNotInitialized")
    /\ UNCHANGED polls

\* The two time checks of vote, on the values the code compares.
VoteCheck(current_time, poll) ==
    IF current_time > AsI64(poll.poll_vote_end) THEN "VotingEnded"
    ELSE IF current_time < AsI64(poll.poll_vote_start) THEN "VotingNotStarted"
    ELSE "Ok"

\* vote: both accounts must exist (Account<..> with seeds); then the time checks;
\* then candidate_votes += 1.
vote(poll_id, candidate, current_time) ==
    LET key == <<poll_id, candidate>> IN
    /\ IF polls[poll_id].exists /\ candidates[key].exists
          THEN LET r == VoteCheck(current_time, polls[poll_id]) IN
               /\ r = "Ok" => candidates[key].candidate_votes < MaxVotes
               /\ candidates' = IF r = "Ok"
                                   THEN [candidates EXCEPT ![key].candidate_votes = @ + 1]
                                   ELSE candidates
               /\ voteLast' = VoteRecord("vote", poll_id, candidate, current_time, r)
          ELSE /\ UNCHANGED candidates
               /\ voteLast' = VoteRecord("vote", poll_id, candidate, current_time,
                                         "AccountNotInitialized")
    /\ UNCHANGED polls

InitializePollStep ==
    \E p \in PollIds, s \in U64Samples, e \in U64Samples, n \in PollNames, d \in PollDescs :
        initialize_poll(p, s, e, n, d) /\ UNCHANGED <<favVars, chainVars, reqVars, poolVars, sendVars, builderVars, memVars, logVars, queueVars, skipVars, bloomVars, counterVars, chanVars, bookVars>>

InitializeCandidateStep ==
    \E p \in PollIds, c \in CandidateNames :
        initialize_candidate(p, c) /\ UNCHANGED <<favVars, chainVars, reqVars, poolVars, sendVars, builderVars, memVars, logVars, queueVars, skipVars, bloomVars, counterVars, chanVars, bookVars>>

VoteStep ==
    \E p \in PollIds, c \in CandidateNames, t \in TimeSamples :
        vote(p, c, t) /\ UNCHANGED <<favVars, chainVars, reqVars, poolVars, sendVars, builderVars, memVars, logVars, queueVars, skipVars, bloomVars, counterVars, chanVars, bookVars>>

VoteNext == InitializePollStep \/ InitializeCandidateStep \/ VoteStep

(***************************************************************************)
(*                          favorite program                               *)
(***************************************************************************)
Users == {"alice", "bob"}

\* pub const ANCHOR_DISCRIMINATOR_SIZE: usize = 8;
ANCHOR_DISCRIMINATOR_SIZE == 8

\* Favorite::INIT_SPACE as #[derive(InitSpace)] computes it from the field
\* types and #[max_len]: u64, String of 10, Vec of 10 Strings of 50.
INIT_SPACE == 8 + (4 + 10) + (4 + 10 * (4 + 50))

\* space = ANCHOR_DISCRIMINATOR_SIZE + Favorite::INIT_SPACE
FavoriteSpace == ANCHOR_DISCRIMINATOR_SIZE + INIT_SPACE

\* Ten copies of a string.
Ten(s) == s \o s \o s \o s \o s \o s \o s \o s \o s \o s

RECURSIVE SumLen(_)
SumLen(hs) == IF hs = <<>> THEN 0 ELSE (4 + Len(Head(hs))) + SumLen(Tail(hs))

\* Bytes the account data takes when the Favorite is written back on exit:
\* discriminator, u64, length-prefixed string, length-prefixed vector of
\* length-prefixed strings.
SerializedSize(number, color, hobbies) ==
    ANCHOR_DISCRIMINATOR_SIZE + 8 + (4 + Len(color)) + (4 + SumLen(hobbies))

Numbers    == {7, 42}
\* "red" is within max_len; the 20-byte colour is over max_len(10) but fits the
\* account; the 600-byte colour does not fit the account.
Colors     == {"red", "aquamarine-turquoise", Ten(Ten("xxxxxx"))}
HobbyLists == {<<>>, <<"ski", "chess">>}

FavArgs == [number : Numbers, color : Colors, hobbies : HobbyLists]
NoArgs  == [number |-> 0, color |-> "", hobbies |-> <<>>, none |-> TRUE]

FavAddrs == {"favorites"} \X Users

\* seeds = [b"favorites", user.key().as_ref()]
FavoritesPdaShared(user) == <<"favorites", "alice">>
FavoritesPda(user) == <<"favorites", user>>

FavInit ==
    /\ favorites = [a \in FavAddrs |-> NoAccount]
    /\ favLast = [op |-> "none", user |-> "", args |-> NoArgs, result |-> "none"]
    /\ favRecent = [u \in Users |-> NoArgs]
    /\ favRecentOk = [u \in Users |-> NoArgs]

FavAccount(args) ==
    [exists |-> TRUE, number |-> args.number, color |-> args.color,
     hobbies |-> args.hobbies]

\* The SetFavorite context followed by set_inner and the write-back on exit:
\* the account at the user's PDA is created if needed and receives the three
\* values; when they do not fit the space reserved for the account the
\* instruction fails and the transaction changes nothing.
SetFavorite(op, user, args) ==
    LET fits == SerializedSize(args.number, args.color, args.hobbies) <= FavoriteSpace
        r    == IF fits THEN "Ok" ELSE "AccountDidNotSerialize"
    IN  /\ favorites' = IF fits
                           THEN [favorites EXCEPT ![FavoritesPda(user)] = FavAccount(args)]
                           ELSE favorites
        /\ favLast' = [op |-> op, user |-> user, args |-> args, result |-> r]
        /\ favRecent' = [favRecent EXCEPT ![user] = args]
        /\ favRecentOk' = IF fits THEN [favRecentOk EXCEPT ![user] = args]
                                  ELSE favRecentOk

\* favorite::initialize
FavInitialize(user, number, color, hobbies) ==
    SetFavorite("initialize", user,
                [number |-> number, color |-> color, hobbies |-> hobbies])

\* favorite::update
FavUpdate(user, number, color, hobbies) ==
    SetFavorite("update", user,
                [number |-> number, color |-> color, hobbies |-> hobbies])

FavInitializeStep ==
    \E u \in Users, a \in FavArgs :
        FavInitialize(u, a.number, a.color, a.hobbies) /\ UNCHANGED <<voteVars, chainVars, reqVars, poolVars, sendVars, builderVars, memVars, logVars, queueVars, skipVars, bloomVars, counterVars, chanVars, bookVars>>

FavUpdateStep ==
    \E u \in Users, a \in FavArgs :
        FavUpdate(u, a.number, a.color, a.hobbies) /\ UNCHANGED <<voteVars, chainVars, reqVars, poolVars, sendVars, builderVars, memVars, logVars, queueVars, skipVars, bloomVars, counterVars, chanVars, bookVars>>

FavNext == FavInitializeStep \/ FavUpdateStep

(***************************************************************************)
(*                            chain program                                *)
(***************************************************************************)
MaxEvents == 2
MaxInitialLamports == 3

Seeds == {"s1", "s2"}

\* seeds = [b"wallet", payer.key().as_ref()] and the signer seeds of the CPI:
\* the address is derived from the label and the payer's key.
WalletPda(payer) == "wallet:" \o payer

\* "vault" is an account that holds data and belongs to another program.
WalletAddrs == {WalletPda(u) : u \in Users}
Keys == Users \cup WalletAddrs \cup {"vault"}

\* alice's wallet address has never been funded; bob's has received lamports
\* from a plain transfer before this program ran.
ChainInit ==
    /\ lamports = [k \in Keys |->
                      CASE k = "alice" -> 3
                        [] k = "bob" -> 1
                        [] k = "wallet:bob" -> 2
                        [] k = "vault" -> 5
                        [] OTHER -> 0]
    /\ owner = [k \in Keys |-> IF k = "vault" THEN "Other" ELSE "System"]
    /\ space = [k \in Keys |-> IF k = "vault" THEN 8 ELSE 0]
    /\ events = <<>>
    /\ chainLast = [op |-> "none", payer |-> "", seed |-> "", wallet |-> "",
                    signed |-> FALSE, initial_lamports |-> 0, result |-> "none",
                    preLamports |-> lamports, preOwner |-> owner, preSpace |-> space,
                    preEvents |-> events]
    /\ walletCalls = {}

ChainRecord(op, payer, seed, wallet, signed, amount, r) ==
    [op |-> op, payer |-> payer, seed |-> seed, wallet |-> wallet, signed |-> signed,
     initial_lamports |-> amount, result |-> r,
     preLamports |-> lamports, preOwner |-> owner, preSpace |-> space,
     preEvents |-> events]

\* The lamports after the System Program has funded `to` from `from`.
FundOnlyCredit(from, to, amount) == [lamports EXCEPT ![to] = @ + amount]
Fund(from, to, amount) == [lamports EXCEPT ![from] = @ - amount, ![to] = @ + amount]

\* system_program::create_account(cpi_ctx, lamports, space, owner): what it
\* answers for the account `to`, funded by `from`.
CreateAccountResult(from, to, amount) ==
    IF lamports[to] > 0 \/ space[to] > 0 \/ owner[to] # "System"
        THEN "AccountAlreadyInUse"
    ELSE IF lamports[from] < amount THEN "InsufficientFunds"
    ELSE "Ok"

\* chain::create_wallet.  The payer signs; the wallet is the account at the
\* address the CreateWallet context derives.
create_wallet(payer, seed, initial_lamports) ==
    LET wallet == WalletPda(payer)
        r      == CreateAccountResult(payer, wallet, initial_lamports)
    IN  /\ IF r = "Ok"
              THEN /\ lamports' = Fund(payer, wallet, initial_lamports)
                   /\ owner' = [owner EXCEPT ![wallet] = "System"]
                   /\ space' = [space EXCEPT ![wallet] = 0]
              ELSE UNCHANGED <<lamports, owner, space>>
        /\ chainLast' = ChainRecord("create_wallet", payer, seed, wallet, TRUE,
                                    initial_lamports, r)
        /\ walletCalls' = walletCalls \cup {<<payer, seed, wallet>>}
        /\ UNCHANGED events

\* emit!(BalanceEvent { wallet: key, lamports })
BalanceEventZero(wallet) == [wallet |-> wallet, lamports |-> 0]
BalanceEvent(wallet) == [wallet |-> wallet, lamports |-> lamports[wallet]]

\* chain::get_balance.  GetBalance asks only that the account is owned by the
\* System Program; it need not sign.
get_balance(wallet, signed) ==
    /\ Len(events) < MaxEvents
    /\ IF owner[wallet] = "System"
          THEN /\ events' = Append(events, BalanceEvent(wallet))
               /\ chainLast' = ChainRecord("get_balance", "", "", wallet, signed, 0, "Ok")
          ELSE /\ UNCHANGED events
               /\ chainLast' = ChainRecord("get_balance", "", "", wallet, signed, 0,
                                           "AccountNotSystemOwned")
    /\ UNCHANGED <<lamports, owner, space, walletCalls>>

CreateWalletStep ==
    \E p \in Users, s \in Seeds, n \in 0..MaxInitialLamports :
        create_wallet(p, s, n) /\ UNCHANGED <<voteVars, favVars, reqVars, poolVars, sendVars, builderVars, memVars, logVars, queueVars, skipVars, bloomVars, counterVars, chanVars, bookVars>>

GetBalanceStep ==
    \E k \in Keys, sg \in BOOLEAN :
        get_balance(k, sg) /\ UNCHANGED <<voteVars, favVars, reqVars, poolVars, sendVars, builderVars, memVars, logVars, queueVars, skipVars, bloomVars, counterVars, chanVars, bookVars>>

ChainNext == CreateWalletStep \/ GetBalanceStep

(***************************************************************************)
(*        8_task_mediate_simple.rs: HttpRequest and the middlewares        *)
(***************************************************************************)
None    == [some |-> FALSE]
Some(v) == [some |-> TRUE, value |-> v]

EmptyMap == [k \in {} |-> ""]

\* HashMap::insert: the key is added, or its value replaced.
MapInsert(m, key, value) ==
    [k \in DOMAIN m \cup {key} |-> IF k = key THEN value ELSE m[k]]

\* str::starts_with
StartsWith(s, prefix) ==
    Len(s) >= Len(prefix) /\ SubSeq(s, 1, Len(prefix)) = prefix

\* str::contains
Contains(s, sub) ==
    \E i \in 1..(Len(s) - Len(sub) + 1) : SubSeq(s, i, i + Len(sub) - 1) = sub

Ok(v)    == [ok |-> TRUE, value |-> v]
Err(e)   == [ok |-> FALSE, error |-> e]

NoRequest  == [exists |-> FALSE]
NoResponse == [exists |-> FALSE]

\* HttpRequest::new
HttpRequest_new_either(method, url) ==
    IF ~StartsWith(url, "http://") \/ ~StartsWith(url, "https://")
        THEN Err("UrlParseError")
        ELSE Ok([exists |-> TRUE, method |-> method, url |-> url, headers |-> EmptyMap,
                 body |-> None, timeout |-> None])
HttpRequest_new(method, url) ==
    IF ~StartsWith(url, "http://") /\ ~StartsWith(url, "https://")
        THEN Err("UrlParseError")
        ELSE Ok([exists |-> TRUE, method |-> method, url |-> url, headers |-> EmptyMap,
                 body |-> None, timeout |-> None])

\* HttpRequest::header
HttpRequest_header(r, key, value) == [r EXCEPT !.headers = MapInsert(@, key, value)]

\* HttpRequest::body
HttpRequest_body(r, b) == [r EXCEPT !.body = Some(b)]

\* HttpRequest::timeout
HttpRequest_timeout(r, t) == [r EXCEPT !.timeout = Some(t)]

\* HttpResponse::new
HttpResponse_new(status, b) ==
    [exists |-> TRUE, status |-> status, headers |-> EmptyMap, body |-> b]

\* AuthMiddleware::bearer / basic / api_key
AuthMiddleware_bearer(token) ==
    [name |-> "AuthMiddleware", token |-> token, auth_type |-> "Bearer", header_name |-> ""]
AuthMiddleware_basic(token) ==
    [name |-> "AuthMiddleware", token |-> token, auth_type |-> "Basic", header_name |-> ""]
AuthMiddleware_api_key(header_name, token) ==
    [name |-> "AuthMiddleware", token |-> token, auth_type |-> "ApiKey",
     header_name |-> header_name]

\* impl Middleware for AuthMiddleware: process_request.  The value is the
\* request as the middleware leaves it and the Result it returns.
AuthMiddleware_process_request_basic_as_bearer(mw, r) ==
    [request |->
        CASE mw.auth_type = "Bearer" ->
                 [r EXCEPT !.headers = MapInsert(@, "Authorization", "Bearer " \o mw.token)]
          [] mw.auth_type = "Basic" ->
                 [r EXCEPT !.headers = MapInsert(@, "Authorization", "Bearer " \o mw.token)]
          [] mw.auth_type = "ApiKey" ->
                 [r EXCEPT !.headers = MapInsert(@, mw.header_name, mw.token)],
     result |-> Ok("unit")]
AuthMiddleware_process_request(mw, r) ==
    [request |->
        CASE mw.auth_type = "Bearer" ->
                 [r EXCEPT !.headers = MapInsert(@, "Authorization", "Bearer " \o mw.token)]
          [] mw.auth_type = "Basic" ->
                 [r EXCEPT !.headers = MapInsert(@, "Authorization", "Basic " \o mw.token)]
          [] mw.auth_type = "ApiKey" ->
                 [r EXCEPT !.headers = MapInsert(@, mw.header_name, mw.token)],
     result |-> Ok("unit")]

\* impl Middleware for AuthMiddleware: process_response.
AuthMiddleware_process_response(mw, response) ==
    [response |-> response, result |-> Ok("unit")]

Methods     == {"GET", "POST"}
Urls        == {"https://example.com", "http://a", "invalid-url", "ftp://a", "http:/a",
                "", "HTTP://a", "xhttp://a", "https:/"}
Tokens      == {"test-token"}
HeaderNames == {"Authorization", "X-Custom-Header"}
ApiKeyNames == {"X-API-Key", "Authorization"}
AuthMiddlewares ==
    {AuthMiddleware_bearer(t) : t \in Tokens}
        \cup {AuthMiddleware_basic(t) : t \in Tokens}
        \cup {AuthMiddleware_api_key(h, t) : h \in ApiKeyNames, t \in Tokens}
NoAuth == [name |-> "", token |-> "", auth_type |-> "", header_name |-> ""]

ReqInit ==
    /\ req = NoRequest
    /\ resp = NoResponse
    /\ reqLast = [op |-> "none", method |-> "", url |-> "", auth |-> NoAuth,
                  ret |-> Ok("unit"), preReq |-> req, preResp |-> resp]

ReqRecord(op, method, url, auth, ret) ==
    [op |-> op, method |-> method, url |-> url, auth |-> auth, ret |-> ret,
     preReq |-> req, preResp |-> resp]

\* let request = HttpRequest::new(method, url): on Err there is no new request.
NewStep ==
    \E m \in Methods, u \in Urls :
        LET ret == HttpRequest_new(m, u) IN
        /\ req' = IF ret.ok THEN ret.value ELSE req
        /\ reqLast' = ReqRecord("new", m, u, NoAuth, ret)
        /\ UNCHANGED <<resp, voteVars, favVars, chainVars, poolVars, sendVars, builderVars, memVars, logVars, queueVars, skipVars, bloomVars, counterVars, chanVars, bookVars>>

HeaderStep ==
    \E k \in HeaderNames :
        /\ req.exists
        /\ req' = HttpRequest_header(req, k, "custom-value")
        /\ reqLast' = ReqRecord("header", "", "", NoAuth, Ok("unit"))
        /\ UNCHANGED <<resp, voteVars, favVars, chainVars, poolVars, sendVars, builderVars, memVars, logVars, queueVars, skipVars, bloomVars, counterVars, chanVars, bookVars>>

BodyStep ==
    /\ req.exists
    /\ req' = HttpRequest_body(req, "test body")
    /\ reqLast' = ReqRecord("body", "", "", NoAuth, Ok("unit"))
    /\ UNCHANGED <<resp, voteVars, favVars, chainVars, poolVars, sendVars, builderVars, memVars, logVars, queueVars, skipVars, bloomVars, counterVars, chanVars, bookVars>>

TimeoutStep ==
    /\ req.exists
    /\ req' = HttpRequest_timeout(req, 5)
    /\ reqLast' = ReqRecord("timeout", "", "", NoAuth, Ok("unit"))
    /\ UNCHANGED <<resp, voteVars, favVars, chainVars, poolVars, sendVars, builderVars, memVars, logVars, queueVars, skipVars, bloomVars, counterVars, chanVars, bookVars>>

ResponseStep ==
    \E st \in {200, 500} :
        /\ resp' = HttpResponse_new(st, "Request successful")
        /\ reqLast' = ReqRecord("response", "", "", NoAuth, Ok("unit"))
        /\ UNCHANGED <<req, voteVars, favVars, chainVars, poolVars, sendVars, builderVars, memVars, logVars, queueVars, skipVars, bloomVars, counterVars, chanVars, bookVars>>

AuthProcessRequestStep ==
    \E mw \in AuthMiddlewares :
        /\ req.exists
        /\ LET out == AuthMiddleware_process_request(mw, req) IN
           /\ req' = out.request
           /\ reqLast' = ReqRecord("process_request", "", "", mw, out.result)
        /\ UNCHANGED <<resp, voteVars, favVars, chainVars, poolVars, sendVars, builderVars, memVars, logVars, queueVars, skipVars, bloomVars, counterVars, chanVars, bookVars>>

AuthProcessResponseStep ==
    \E mw \in AuthMiddlewares :
        /\ resp.exists
        /\ LET out == AuthMiddleware_process_response(mw, resp) IN
           /\ resp' = out.response
           /\ reqLast' = ReqRecord("process_response", "", "", mw, out.result)
        /\ UNCHANGED <<req, voteVars, favVars, chainVars, poolVars, sendVars, builderVars, memVars, logVars, queueVars, skipVars, bloomVars, counterVars, chanVars, bookVars>>

ReqNext ==
    \/ NewStep \/ HeaderStep \/ BodyStep \/ TimeoutStep \/ ResponseStep
    \/ AuthProcessRequestStep \/ AuthProcessResponseStep

(***************************************************************************)
(*             8_task_mediate_simple.rs: ConnectionPool                    *)
(***************************************************************************)
NumTasks       == 3
MaxConnections == 2
MaxHeld        == 2

Tasks == 1..NumTasks

NoPool == [exists |-> FALSE, max_connections |-> 0, permits |-> 0]

\* ConnectionPool::new: a semaphore with max_connections permits.
ConnectionPool_new(max_connections) ==
    [exists |-> TRUE, max_connections |-> max_connections, permits |-> max_connections]

\* ConnectionPool::available_connections
available_connections(p) == p.permits

\* tokio::sync::Semaphore, as ConnectionPool uses it.  An acquire takes a
\* permit when one is available and otherwise queues, first come first served.
\* A released permit goes to the acquire at the head of the queue when there is
\* one (that acquire is woken and completes when its task next runs) and is
\* added to the available permits only when nobody is queued.  The semaphore
\* is never closed, so acquire_owned() never errs.
AcquireReady(p) == p.permits > 0

\* The permits once an acquire has taken one.
TakePermit(p) == [p EXCEPT !.permits = @ - 1]

\* The permits once a permit nobody waits for has been given back.
ReleasePermitLeak(p) == p
ReleasePermit(p) == [p EXCEPT !.permits = @ + 1]

PoolInit ==
    /\ pool = NoPool
    /\ guards = [t \in Tasks |-> 0]
    /\ waiters = <<>>
    /\ granted = {}
    /\ poolLast = [op |-> "none", task |-> 0, before |-> 0, waited |-> FALSE,
                   result |-> "none"]

PoolRecord(op, t, waited, r) ==
    [op |-> op, task |-> t, before |-> available_connections(pool), waited |-> waited,
     result |-> r]

Pending(t) == t \in granted \/ \E i \in DOMAIN waiters : waiters[i] = t

PoolNewStep ==
    \E n \in 0..MaxConnections :
        /\ ~pool.exists
        /\ pool' = ConnectionPool_new(n)
        /\ poolLast' = PoolRecord("new", 0, FALSE, "Ok")
        /\ UNCHANGED <<guards, waiters, granted>>
        /\ UNCHANGED <<voteVars, favVars, chainVars, reqVars, sendVars, builderVars, memVars, logVars, queueVars, skipVars, bloomVars, counterVars, chanVars, bookVars>>

\* A task calls pool.acquire().await: with a permit available it gets
\* Ok(ConnectionGuard) at once, otherwise it is suspended in the queue.
AcquireCallStep ==
    \E t \in Tasks :
        /\ pool.exists /\ ~Pending(t) /\ guards[t] < MaxHeld
        /\ IF AcquireReady(pool)
              THEN /\ pool' = TakePermit(pool)
                   /\ guards' = [guards EXCEPT ![t] = @ + 1]
                   /\ poolLast' = PoolRecord("acquired", t, FALSE, "Ok")
                   /\ UNCHANGED waiters
              ELSE /\ waiters' = Append(waiters, t)
                   /\ poolLast' = PoolRecord("acquire_pending", t, FALSE, "Pending")
                   /\ UNCHANGED <<pool, guards>>
        /\ UNCHANGED granted
        /\ UNCHANGED <<voteVars, favVars, chainVars, reqVars, sendVars, builderVars, memVars, logVars, queueVars, skipVars, bloomVars, counterVars, chanVars, bookVars>>

\* A task that was handed a permit resumes: its .await yields the permit and
\* acquire returns Ok(ConnectionGuard { _permit }).
AcquireResumeStep ==
    \E t \in granted :
        /\ guards' = [guards EXCEPT ![t] = @ + 1]
        /\ granted' = granted \ {t}
        /\ poolLast' = PoolRecord("acquired", t, TRUE, "Ok")
        /\ UNCHANGED <<pool, waiters>>
        /\ UNCHANGED <<voteVars, favVars, chainVars, reqVars, sendVars, builderVars, memVars, logVars, queueVars, skipVars, bloomVars, counterVars, chanVars, bookVars>>

\* A running task drops one of its guards, and with it the permit.
DropGuardStep ==
    \E t \in Tasks :
        /\ guards[t] > 0 /\ ~Pending(t)
        /\ guards' = [guards EXCEPT ![t] = @ - 1]
        /\ IF waiters # <<>>
              THEN /\ granted' = granted \cup {Head(waiters)}
                   /\ waiters' = Tail(waiters)
                   /\ poolLast' = PoolRecord("dropped", t, TRUE, "Ok")
                   /\ UNCHANGED pool
              ELSE /\ pool' = ReleasePermit(pool)
                   /\ poolLast' = PoolRecord("dropped", t, FALSE, "Ok")
                   /\ UNCHANGED <<waiters, granted>>
        /\ UNCHANGED <<voteVars, favVars, chainVars, reqVars, sendVars, builderVars, memVars, logVars, queueVars, skipVars, bloomVars, counterVars, chanVars, bookVars>>

PoolNext == PoolNewStep \/ AcquireCallStep \/ AcquireResumeStep \/ DropGuardStep

(***************************************************************************)
(*             8_task_mediate_simple.rs: HttpClient::send                  *)
(***************************************************************************)
MaxRetries == 3

\* impl Default for RetryConfig (durations in milliseconds).
RetryConfig_default ==
    [max_retries |-> 3, retry_delay |-> 1000, retry_on_status |-> <<500, 502, 503, 504>>]

\* The RetryConfig main() builds its client with.
RetryConfig_main ==
    [max_retries |-> 2, retry_delay |-> 500, retry_on_status |-> <<500, 502, 503>>]

\* LoggingMiddleware::new
LoggingMiddleware_new ==
    [name |-> "LoggingMiddleware", log_requests |-> TRUE, log_responses |-> TRUE]

\* impl Middleware for LoggingMiddleware: both methods only write to the log.
LoggingMiddleware_process_request(mw, r) == [request |-> r, result |-> Ok("unit")]
LoggingMiddleware_process_response(mw, response) ==
    [response |-> response, result |-> Ok("unit")]

\* Dynamic dispatch of Box<dyn Middleware>.
Middleware_process_request(mw, r) ==
    IF mw.name = "AuthMiddleware" THEN AuthMiddleware_process_request(mw, r)
                                  ELSE LoggingMiddleware_process_request(mw, r)
Middleware_process_response(mw, response) ==
    IF mw.name = "AuthMiddleware" THEN AuthMiddleware_process_response(mw, response)
                                  ELSE LoggingMiddleware_process_response(mw, response)

\* for middleware in &self.middlewares { middleware.process_request(&mut request)?; }
RECURSIVE ProcessRequests(_, _)
ProcessRequests(mws, r) ==
    IF mws = <<>> THEN [request |-> r, result |-> Ok("unit")]
    ELSE LET out == Middleware_process_request(Head(mws), r)
         IN  IF out.result.ok THEN ProcessRequests(Tail(mws), out.request) ELSE out

\* for middleware in &self.middlewares { middleware.process_response(&mut response)?; }
RECURSIVE ProcessResponses(_, _)
ProcessResponses(mws, response) ==
    IF mws = <<>> THEN [response |-> response, result |-> Ok("unit")]
    ELSE LET out == Middleware_process_response(Head(mws), response)
         IN  IF out.result.ok THEN ProcessResponses(Tail(mws), out.response) ELSE out

\* HttpClient::new, with_retry_config, add_middleware (durations in milliseconds).
HttpClient_new ==
    [pool |-> ConnectionPool_new(10), middlewares |-> <<>>, default_timeout |-> 30000,
     retry_config |-> RetryConfig_default]
HttpClient_with_retry_config(c, config) == [c EXCEPT !.retry_config = config]
HttpClient_add_middleware(c, mw) == [c EXCEPT !.middlewares = Append(@, mw)]

\* The response execute_request simulates for a request, once it holds a
\* connection.
SimulatedResponse(request) ==
    CASE request.method = "GET" ->
             IF Contains(request.url, "error")
                 THEN HttpResponse_new(500, "Internal Server Error")
             ELSE IF Contains(request.url, "notfound")
                 THEN HttpResponse_new(404, "Not Found")
             ELSE [HttpResponse_new(200,
                      "{\"message\": \"GET request successful\", \"data\": {\"id\": 1, \"name\": \"test\"}}")
                   EXCEPT !.headers = MapInsert(@, "Content-Type", "application/json")]
      [] request.method = "POST" ->
             [HttpResponse_new(201, "{\"message\": \"POST request successful\", \"id\": 123}")
              EXCEPT !.headers = MapInsert(@, "Content-Type", "application/json")]
      [] OTHER -> HttpResponse_new(200, "Request successful")

\* HttpClient::execute_request: what the call can return.  acquire()? gives
\* Err(PoolExhausted) when the semaphore refuses the permit; with the permit
\* the simulated response is returned as Ok, whatever its status.
execute_request(client, request) ==
    {Err("PoolExhausted"), Ok(SimulatedResponse(request))}

\* if attempt == self.retry_config.max_retries { return Err(e); }
IsLastAttemptOffByOne(attempt, max_retries) == attempt = max_retries + 1
IsLastAttempt(attempt, max_retries) == attempt = max_retries

TrailingError == Err("RequestFailed: Unexpected error: retry loop completed without return")

SendMethods == {"GET", "POST", "PUT"}
SendUrls    == {"https://api.example.com/users", "https://api.example.com/error",
                "https://api.example.com/notfound"}
SendRequests ==
    {HttpRequest_new(m, u).value : m \in SendMethods, u \in SendUrls}
        \cup {HttpRequest_timeout(
                  HttpRequest_header(HttpRequest_new("GET", "https://api.example.com/data").value,
                                     "X-Custom-Header", "custom-value"), 5000)}
SendRetryConfigs ==
    {[c EXCEPT !.max_retries = n] : c \in {RetryConfig_default, RetryConfig_main},
                                    n \in 0..MaxRetries}
SendMiddlewares ==
    {<<>>, <<LoggingMiddleware_new, AuthMiddleware_bearer("your-api-token")>>}

RECURSIVE AddMiddlewares(_, _)
AddMiddlewares(c, mws) ==
    IF mws = <<>> THEN c
    ELSE AddMiddlewares(HttpClient_add_middleware(c, Head(mws)), Tail(mws))

SendClients ==
    {AddMiddlewares(HttpClient_with_retry_config(HttpClient_new, rc), mws) :
        rc \in SendRetryConfigs, mws \in SendMiddlewares}

IdleCall ==
    [pc |-> "idle", request |-> NoRequest, attempt |-> 0, outcomes |-> <<>>,
     sleeps |-> 0, result |-> Ok("unit")]

SendInit ==
    /\ sendClient = HttpClient_new
    /\ sendCall = IdleCall

\* send, up to the retry loop: the default timeout, then the request
\* middlewares, whose first error is returned.
SendBeginStep ==
    \E client \in SendClients, request \in SendRequests :
        /\ sendCall.pc = "idle"
        /\ sendClient' = client
        /\ LET r1  == IF request.timeout = None
                         THEN [request EXCEPT !.timeout = Some(client.default_timeout)]
                         ELSE request
               out == ProcessRequests(client.middlewares, r1)
           IN  sendCall' =
                   IF out.result.ok
                       THEN [IdleCall EXCEPT !.pc = "loop", !.request = out.request]
                       ELSE [IdleCall EXCEPT !.pc = "done", !.request = out.request,
                                             !.result = out.result]
        /\ UNCHANGED <<voteVars, favVars, chainVars, reqVars, poolVars, builderVars, memVars, logVars, queueVars, skipVars, bloomVars, counterVars, chanVars, bookVars>>

\* One pass of the loop body: execute_request and the match on its result.
SendAttemptStep ==
    /\ sendCall.pc = "loop"
    /\ \E outcome \in execute_request(sendClient, sendCall.request) :
        /\ sendCall' =
               LET logged == [sendCall EXCEPT !.outcomes = Append(@, outcome)]
               IN  IF outcome.ok
                       THEN LET out == ProcessResponses(sendClient.middlewares, outcome.value)
                            IN  [logged EXCEPT !.pc = "done",
                                    !.result = IF out.result.ok THEN Ok(out.response)
                                                                ELSE out.result]
                   ELSE IF IsLastAttempt(sendCall.attempt, sendClient.retry_config.max_retries)
                       THEN [logged EXCEPT !.pc = "done", !.result = outcome]
                   ELSE [logged EXCEPT !.pc = "sleep"]
        /\ UNCHANGED sendClient
        /\ UNCHANGED <<voteVars, favVars, chainVars, reqVars, poolVars, builderVars, memVars, logVars, queueVars, skipVars, bloomVars, counterVars, chanVars, bookVars>>

\* tokio::time::sleep(retry_delay).await, then the next value of the range
\* 0..=max_retries, or the end of the loop and the trailing Err.
SendSleepStep ==
    /\ sendCall.pc = "sleep"
    /\ sendCall' =
           IF sendCall.attempt + 1 <= sendClient.retry_config.max_retries
               THEN [sendCall EXCEPT !.pc = "loop", !.attempt = @ + 1, !.sleeps = @ + 1]
               ELSE [sendCall EXCEPT !.pc = "done", !.attempt = @ + 1, !.sleeps = @ + 1,
                                     !.result = TrailingError]
    /\ UNCHANGED sendClient
    /\ UNCHANGED <<voteVars, favVars, chainVars, reqVars, poolVars, builderVars, memVars, logVars, queueVars, skipVars, bloomVars, counterVars, chanVars, bookVars>>

\* The caller has the result; the client is free for the next call.
SendReturnStep ==
    /\ sendCall.pc = "done"
    /\ sendCall' = IdleCall
    /\ UNCHANGED sendClient
    /\ UNCHANGED <<voteVars, favVars, chainVars, reqVars, poolVars, builderVars, memVars, logVars, queueVars, skipVars, bloomVars, counterVars, chanVars, bookVars>>

SendNext == SendBeginStep \/ SendAttemptStep \/ SendSleepStep \/ SendReturnStep

(***************************************************************************)
(*             8_task_mediate_simple.rs: HttpClientBuilder                 *)
(***************************************************************************)
MaxBuilderCalls == 3

NoBuilder == [exists |-> FALSE]
NoClient  == [exists |-> FALSE]

\* HttpClient::with_pool_size, HttpClient::with_timeout
HttpClient_with_pool_size(c, size) == [c EXCEPT !.pool = ConnectionPool_new(size)]
HttpClient_with_timeout(c, timeout) == [c EXCEPT !.default_timeout = timeout]

\* HttpClientBuilder::new and its setters (durations in milliseconds).
HttpClientBuilder_new ==
    [exists |-> TRUE, pool_size |-> 10, timeout |-> 30000,
     retry_config |-> RetryConfig_default, middlewares |-> <<>>]
HttpClientBuilder_pool_size(b, size) == [b EXCEPT !.pool_size = size]
HttpClientBuilder_timeout(b, timeout) == [b EXCEPT !.timeout = timeout]
HttpClientBuilder_retry_config(b, config) == [b EXCEPT !.retry_config = config]
HttpClientBuilder_add_middleware(b, mw) == [b EXCEPT !.middlewares = Append(@, mw)]

\* for middleware in self.middlewares { client.middlewares.push(middleware); }
RECURSIVE PushMiddlewares(_, _)
PushMiddlewares(c, mws) ==
    IF mws = <<>> THEN c
    ELSE PushMiddlewares([c EXCEPT !.middlewares = Append(@, Head(mws))], Tail(mws))

\* HttpClientBuilder::build
HttpClientBuilder_build_new_timeout(b) ==
    PushMiddlewares(
        HttpClient_with_retry_config(HttpClient_with_pool_size(HttpClient_new, b.pool_size),
                                     b.retry_config),
        b.middlewares)
HttpClientBuilder_build(b) ==
    PushMiddlewares(
        HttpClient_with_retry_config(
            HttpClient_with_timeout(HttpClient_with_pool_size(HttpClient_new, b.pool_size),
                                    b.timeout),
            b.retry_config),
        b.middlewares)

BuilderPoolSizes    == {0, 5}
BuilderTimeouts     == {10000}
BuilderRetryConfigs == {RetryConfig_main}
BuilderMiddlewares  == {LoggingMiddleware_new, AuthMiddleware_bearer("your-api-token")}

BuilderInit ==
    /\ builder = NoBuilder
    /\ builtClient = NoClient
    /\ builderCalls = <<>>

BuilderNewStep ==
    /\ ~builder.exists
    /\ builder' = HttpClientBuilder_new
    /\ builderCalls' = <<>>
    /\ UNCHANGED builtClient
    /\ UNCHANGED <<voteVars, favVars, chainVars, reqVars, poolVars, sendVars, memVars, logVars, queueVars, skipVars, bloomVars, counterVars, chanVars, bookVars>>

BuilderCall(op, arg, b) ==
    /\ builder.exists /\ Len(builderCalls) < MaxBuilderCalls
    /\ builder' = b
    /\ builderCalls' = Append(builderCalls, [op |-> op, arg |-> arg])
    /\ UNCHANGED builtClient
    /\ UNCHANGED <<voteVars, favVars, chainVars, reqVars, poolVars, sendVars, memVars, logVars, queueVars, skipVars, bloomVars, counterVars, chanVars, bookVars>>

BuilderPoolSizeStep ==
    \E size \in BuilderPoolSizes :
        BuilderCall("pool_size", size, HttpClientBuilder_pool_size(builder, size))

BuilderTimeoutStep ==
    \E t \in BuilderTimeouts :
        BuilderCall("timeout", t, HttpClientBuilder_timeout(builder, t))

BuilderRetryConfigStep ==
    \E c \in BuilderRetryConfigs :
        BuilderCall("retry_config", c, HttpClientBuilder_retry_config(builder, c))

BuilderAddMiddlewareStep ==
    \E mw \in BuilderMiddlewares :
        BuilderCall("add_middleware", mw, HttpClientBuilder_add_middleware(builder, mw))

\* build(self) consumes the builder.
BuildStep ==
    /\ builder.exists
    /\ builtClient' = [exists |-> TRUE, client |-> HttpClientBuilder_build(builder)]
    /\ builder' = NoBuilder
    /\ UNCHANGED builderCalls
    /\ UNCHANGED <<voteVars, favVars, chainVars, reqVars, poolVars, sendVars, memVars, logVars, queueVars, skipVars, bloomVars, counterVars, chanVars, bookVars>>

BuilderNext ==
    \/ BuilderNewStep \/ BuilderPoolSizeStep \/ BuilderTimeoutStep
    \/ BuilderRetryConfigStep \/ BuilderAddMiddlewareStep \/ BuildStep

(***************************************************************************)
(*             7_task_basic.rs: MemoryPool / MemoryHandle                  *)
(***************************************************************************)
MaxBlocks  == 2
MaxHandles == 2

BlockSizes == {1, 2}
AllocSizes == {1, 2}
BlockIds   == 1..(MaxBlocks + 1)

NoHandle == [live |-> FALSE, id |-> 0, size |-> 0]

\* MemoryPool::new
MemoryPool_new == [blocks |-> <<>>, next_id |-> 1, total_allocated |-> 0]

\* MemoryPool::add_block
MemoryPool_add_block(p, size) ==
    [p EXCEPT !.blocks = Append(@, [id |-> p.next_id, size |-> size, is_free |-> TRUE]),
              !.next_id = @ + 1]

\* The first of the positions `hits`, or 0 when there is none (the loops over
\* self.blocks.iter() that stop at the first block satisfying their test).
FirstBlock(hits) ==
    IF hits = {} THEN 0 ELSE CHOOSE i \in hits : \A j \in hits : i <= j

\* usize::saturating_sub
saturating_sub(a, b) == IF a >= b THEN a - b ELSE 0

\* MemoryPool::allocate: the pool afterwards and the Option<MemoryHandle>.
MemoryPool_allocate(p, size) ==
    LET i == FirstBlock({k \in DOMAIN p.blocks :
                             p.blocks[k].is_free /\ p.blocks[k].size >= size})
    IN  IF i = 0
            THEN [pool |-> p, handle |-> NoHandle]
            ELSE [pool |-> [p EXCEPT !.blocks[i].is_free = FALSE,
                                     !.total_allocated = @ + size],
                  handle |-> [live |-> TRUE, id |-> p.blocks[i].id, size |-> size]]

\* MemoryPool::free_by_id
MemoryPool_free_by_id(p, id) ==
    LET i == FirstBlock({k \in DOMAIN p.blocks :
                             p.blocks[k].id = id /\ ~p.blocks[k].is_free})
    IN  IF i = 0 THEN p
        ELSE [p EXCEPT !.blocks[i].is_free = TRUE,
                       !.total_allocated = saturating_sub(@, p.blocks[i].size)]

\* MemoryPool::free: the pool afterwards and the Result ("AlreadyFree" and
\* "InvalidId" stand for the two &'static str messages).
MemoryPool_free_any_state(p, id) ==
    LET i == FirstBlock({k \in DOMAIN p.blocks : p.blocks[k].id = id})
    IN  IF i = 0 THEN [pool |-> p, result |-> Err("InvalidId")]
        ELSE [pool |-> [p EXCEPT !.blocks[i].is_free = TRUE,
                                 !.total_allocated = saturating_sub(@, p.blocks[i].size)],
              result |-> Ok("unit")]
MemoryPool_free(p, id) ==
    LET i == FirstBlock({k \in DOMAIN p.blocks : p.blocks[k].id = id})
    IN  IF i = 0 THEN [pool |-> p, result |-> Err("InvalidId")]
        ELSE IF ~p.blocks[i].is_free
            THEN [pool |-> [p EXCEPT !.blocks[i].is_free = TRUE,
                                     !.total_allocated = saturating_sub(@, p.blocks[i].size)],
                  result |-> Ok("unit")]
        ELSE [pool |-> p, result |-> Err("AlreadyFree")]

\* impl Drop for MemoryHandle: free_by_id runs only if try_borrow_mut
\* succeeds, that is if no borrow of the RefCell is alive.
MemoryHandle_drop(p, borrow, h) ==
    IF borrow = "none" THEN MemoryPool_free_by_id(p, h.id) ELSE p

MemInit ==
    /\ memPool = MemoryPool_new
    /\ memHandles = EmptyBag
    /\ memBorrow = "none"
    /\ memLast = [op |-> "none", id |-> 0, size |-> 0, result |-> "none",
                  borrow |-> "none", pre |-> MemoryPool_new]

\* `pre` keeps the pool as it was before a free call.
MemRecord(op, id, size, r) ==
    [op |-> op, id |-> id, size |-> size, result |-> r, borrow |-> memBorrow,
     pre |-> IF op = "free" THEN memPool ELSE MemoryPool_new]

\* pool.borrow_mut().add_block(size), directly or through a RefMut the
\* caller holds.
AddBlockStep ==
    \E size \in BlockSizes :
        /\ memBorrow \in {"none", "mut"}
        /\ Len(memPool.blocks) < MaxBlocks
        /\ memPool' = MemoryPool_add_block(memPool, size)
        /\ memLast' = MemRecord("add_block", memPool.next_id, size, "Ok")
        /\ UNCHANGED <<memHandles, memBorrow>>
        /\ UNCHANGED <<voteVars, favVars, chainVars, reqVars, poolVars, sendVars, builderVars, logVars, queueVars, skipVars, bloomVars, counterVars, chanVars, bookVars>>

\* MemoryPool::allocate(&pool, size); its pool.borrow_mut() needs the RefCell
\* unborrowed.  A returned handle stays alive until it is dropped.
AllocateStep ==
    \E size \in AllocSizes :
        LET out == MemoryPool_allocate(memPool, size)
        IN  /\ memBorrow = "none"
            /\ BagCardinality(memHandles) < MaxHandles
            /\ memPool' = out.pool
            /\ memHandles' = IF out.handle.live
                                THEN memHandles (+) SetToBag({out.handle})
                                ELSE memHandles
            /\ memLast' = MemRecord("allocate", out.handle.id, size,
                                    IF out.handle.live THEN "Some" ELSE "None")
            /\ UNCHANGED memBorrow
            /\ UNCHANGED <<voteVars, favVars, chainVars, reqVars, poolVars, sendVars, builderVars, logVars, queueVars, skipVars, bloomVars, counterVars, chanVars, bookVars>>

\* A live handle goes out of scope or is passed to drop().
DropHandleStep ==
    \E h \in BagToSet(memHandles) :
        /\ memPool' = MemoryHandle_drop(memPool, memBorrow, h)
        /\ memHandles' = memHandles (-) SetToBag({h})
        /\ memLast' = MemRecord("drop", h.id, 0, "Ok")
        /\ UNCHANGED memBorrow
        /\ UNCHANGED <<voteVars, favVars, chainVars, reqVars, poolVars, sendVars, builderVars, logVars, queueVars, skipVars, bloomVars, counterVars, chanVars, bookVars>>

\* pool_ref.free(id) on a mutable borrow of the pool.
FreeStep ==
    \E id \in BlockIds :
        LET out == MemoryPool_free(memPool, id)
        IN  /\ memBorrow \in {"none", "mut"}
            /\ memPool' = out.pool
            /\ memLast' = MemRecord("free", id, 0, IF out.result.ok THEN "Ok" ELSE out.result.error)
            /\ UNCHANGED <<memHandles, memBorrow>>
            /\ UNCHANGED <<voteVars, favVars, chainVars, reqVars, poolVars, sendVars, builderVars, logVars, queueVars, skipVars, bloomVars, counterVars, chanVars, bookVars>>

\* let pool_ref = pool.borrow();  or  let mut pool_ref = pool.borrow_mut();
BorrowStep ==
    \E kind \in {"shared", "mut"} :
        /\ memBorrow = "none"
        /\ memBorrow' = kind
        /\ memLast' = MemRecord("borrow", 0, 0, kind)
        /\ UNCHANGED <<memPool, memHandles>>
        /\ UNCHANGED <<voteVars, favVars, chainVars, reqVars, poolVars, sendVars, builderVars, logVars, queueVars, skipVars, bloomVars, counterVars, chanVars, bookVars>>

\* pool_ref goes out of scope.
ReleaseBorrowStep ==
    /\ memBorrow # "none"
    /\ memBorrow' = "none"
    /\ memLast' = MemRecord("release", 0, 0, "Ok")
    /\ UNCHANGED <<memPool, memHandles>>
    /\ UNCHANGED <<voteVars, favVars, chainVars, reqVars, poolVars, sendVars, builderVars, logVars, queueVars, skipVars, bloomVars, counterVars, chanVars, bookVars>>

MemNext ==
    \/ AddBlockStep \/ AllocateStep \/ DropHandleStep \/ FreeStep
    \/ BorrowStep \/ ReleaseBorrowStep

(***************************************************************************)
(*                       7_task_basic.rs: Logger                           *)
(***************************************************************************)
NumLogThreads == 2
MaxLogSends   == 2

LogThreads == 1..NumLogThreads

\* enum LogLevel, in declaration order.
LogLevel == <<"Debug", "Info", "Warn", "Error">>
LogLevels == {LogLevel[i] : i \in DOMAIN LogLevel}

\* impl Default for LogConfig
LogConfig_default ==
    [min_level |-> "Info", max_file_size |-> 1024 * 1024, max_files |-> 5, log_dir |-> "logs"]

\* The configurations update_config is called with.
LogConfigs == {[LogConfig_default EXCEPT !.min_level = l] : l \in {"Debug", "Error"}}

\* Logger::should_log
should_log_strict(level, min_level) ==
    LET priority(l) == CASE l = "Debug" -> 0 [] l = "Info" -> 1
                         [] l = "Warn" -> 2 [] l = "Error" -> 3
    IN  priority(level) > priority(min_level)
should_log(level, min_level) ==
    LET priority(l) == CASE l = "Debug" -> 0 [] l = "Info" -> 1
                         [] l = "Warn" -> 2 [] l = "Error" -> 3
    IN  priority(level) >= priority(min_level)

\* LogMessage::Entry(LogEntry { level, message, dest_path, .. }) and
\* LogMessage::Shutdown.  The message text names the calling thread.
LogMessage_Entry(level, t, log_dir) ==
    [kind |-> "Entry", level |-> level, message |-> t, dest_path |-> log_dir \o "/app.log"]
LogMessage_Shutdown == [kind |-> "Shutdown"]

IdleLog == [pc |-> "idle"]

\* Logger::new(LogConfig::default()): the channel is empty and the worker runs.
LogInit ==
    /\ logConfig = LogConfig_default
    /\ logQueue = <<>>
    /\ logSent = <<>>
    /\ logProcessed = <<>>
    /\ logWorker = "running"
    /\ logLogger = "alive"
    /\ logCalls = [t \in LogThreads |-> IdleLog]
    /\ logInForce = LogConfig_default.min_level
    /\ logLast = [op |-> "new", thread |-> 0, level |-> "", min |-> "", handed |-> FALSE,
                  result |-> "Ok", sentBefore |-> 0]

LogRecord(op, t, level, handed, r) ==
    [op |-> op, thread |-> t, level |-> level, min |-> logInForce, handed |-> handed,
     result |-> r, sentBefore |-> Len(logSent)]

PendingSends == Cardinality({t \in LogThreads : logCalls[t].pc = "send"})

\* Logger::log up to drop(config): under the config lock the level is
\* checked; a filtered call returns Ok(()) here, a passing one builds its entry.
LogCheckStep ==
    \E t \in LogThreads, level \in LogLevels :
        /\ logLogger = "alive" /\ logCalls[t].pc = "idle"
        /\ Len(logSent) + PendingSends < MaxLogSends
        /\ IF should_log(level, logConfig.min_level)
              THEN /\ logCalls' = [logCalls EXCEPT ![t] =
                          [pc |-> "send",
                           entry |-> LogMessage_Entry(level, t, logConfig.log_dir)]]
                   /\ logLast' = LogRecord("log", t, level, TRUE, "Pending")
              ELSE /\ logLast' = LogRecord("log", t, level, FALSE, "Ok")
                   /\ UNCHANGED logCalls
        /\ UNCHANGED <<logConfig, logQueue, logSent, logProcessed, logWorker, logLogger,
                       logInForce>>
        /\ UNCHANGED <<voteVars, favVars, chainVars, reqVars, poolVars, sendVars, builderVars, memVars, queueVars, skipVars, bloomVars, counterVars, chanVars, bookVars>>

\* self.sender.send(LogMessage::Entry(entry))?; Ok(())  -- send fails only
\* when the receiver is gone.
LogSendStep ==
    \E t \in LogThreads :
        /\ logCalls[t].pc = "send"
        /\ IF logWorker = "running"
              THEN /\ logQueue' = Append(logQueue, logCalls[t].entry)
                   /\ logSent' = Append(logSent, logCalls[t].entry)
                   /\ logLast' = LogRecord("send", t, logCalls[t].entry.level, TRUE, "Ok")
              ELSE /\ logLast' = LogRecord("send", t, logCalls[t].entry.level, FALSE, "SendError")
                   /\ UNCHANGED <<logQueue, logSent>>
        /\ logCalls' = [logCalls EXCEPT ![t] = IdleLog]
        /\ UNCHANGED <<logConfig, logProcessed, logWorker, logLogger, logInForce>>
        /\ UNCHANGED <<voteVars, favVars, chainVars, reqVars, poolVars, sendVars, builderVars, memVars, queueVars, skipVars, bloomVars, counterVars, chanVars, bookVars>>

\* Logger::update_config
Logger_update_config(config, new_config) == new_config

UpdateConfigStep ==
    \E c \in LogConfigs :
        /\ logLogger = "alive"
        /\ logConfig' = Logger_update_config(logConfig, c)
        /\ logInForce' = c.min_level
        /\ logLast' = LogRecord("update_config", 0, c.min_level, FALSE, "Ok")
        /\ UNCHANGED <<logQueue, logSent, logProcessed, logWorker, logLogger, logCalls>>
        /\ UNCHANGED <<voteVars, favVars, chainVars, reqVars, poolVars, sendVars, builderVars, memVars, queueVars, skipVars, bloomVars, counterVars, chanVars, bookVars>>

\* Logger::shutdown(self): sends Shutdown and returns without joining the
\* worker; self, and with it the only Sender, is dropped on return.  Taking
\* self by value needs every borrow of the Logger to have ended.
ShutdownStep ==
    /\ logLogger = "alive" /\ \A t \in LogThreads : logCalls[t].pc = "idle"
    /\ Len(logSent) < MaxLogSends + 1
    /\ IF logWorker = "running"
          THEN /\ logQueue' = Append(logQueue, LogMessage_Shutdown)
               /\ logSent' = Append(logSent, LogMessage_Shutdown)
               /\ logLast' = LogRecord("shutdown", 0, "", FALSE, "Ok")
          ELSE /\ logLast' = LogRecord("shutdown", 0, "", FALSE, "SendError")
               /\ UNCHANGED <<logQueue, logSent>>
    /\ logLogger' = "shutdown"
    /\ UNCHANGED <<logConfig, logProcessed, logWorker, logCalls, logInForce>>
    /\ UNCHANGED <<voteVars, favVars, chainVars, reqVars, poolVars, sendVars, builderVars, memVars, queueVars, skipVars, bloomVars, counterVars, chanVars, bookVars>>

\* The Logger goes out of scope without shutdown (end of
\* test_concurrent_logging): its Sender is dropped, the worker is detached.
DropLoggerStep ==
    /\ logLogger = "alive" /\ \A t \in LogThreads : logCalls[t].pc = "idle"
    /\ logLogger' = "dropped"
    /\ logLast' = LogRecord("drop", 0, "", FALSE, "Ok")
    /\ UNCHANGED <<logConfig, logQueue, logSent, logProcessed, logWorker, logCalls, logInForce>>
    /\ UNCHANGED <<voteVars, favVars, chainVars, reqVars, poolVars, sendVars, builderVars, memVars, queueVars, skipVars, bloomVars, counterVars, chanVars, bookVars>>

\* Logger::log_worker, one turn of `while let Ok(message) = receiver.recv()`:
\* an Entry is processed, Shutdown breaks the loop, and recv() returns Err,
\* ending the loop, once the channel is empty and its Sender is gone.
WorkerStep ==
    /\ logWorker = "running"
    /\ IF logQueue # <<>>
          THEN /\ logQueue' = Tail(logQueue)
               /\ IF Head(logQueue).kind = "Entry"
                     THEN /\ logProcessed' = Append(logProcessed, Head(logQueue))
                          /\ UNCHANGED logWorker
                     ELSE /\ logWorker' = "stopped"
                          /\ UNCHANGED logProcessed
          ELSE /\ logLogger # "alive"
               /\ logWorker' = "stopped"
               /\ UNCHANGED <<logQueue, logProcessed>>
    /\ UNCHANGED <<logConfig, logSent, logLogger, logCalls, logInForce, logLast>>
    /\ UNCHANGED <<voteVars, favVars, chainVars, reqVars, poolVars, sendVars, builderVars, memVars, queueVars, skipVars, bloomVars, counterVars, chanVars, bookVars>>

\* main returns after its Loggers are gone: the process exits and the
\* detached worker thread, which nobody joins, ends wherever it is.
ProcessExitStep ==
    /\ logLogger # "alive" /\ logWorker = "running"
    /\ logWorker' = "killed"
    /\ UNCHANGED <<logConfig, logQueue, logSent, logProcessed, logLogger, logCalls, logInForce,
                   logLast>>
    /\ UNCHANGED <<voteVars, favVars, chainVars, reqVars, poolVars, sendVars, builderVars, memVars, queueVars, skipVars, bloomVars, counterVars, chanVars, bookVars>>

LogNext ==
    \/ LogCheckStep \/ LogSendStep \/ UpdateConfigStep \/ ShutdownStep
    \/ DropLoggerStep \/ WorkerStep \/ ProcessExitStep

(***************************************************************************)
(*                     9_data_structure.rs: Queue                          *)
(***************************************************************************)
MaxQueueLen == 4

QueueItems == {"a", "b", "c"}

\* Queue::new
Queue_new == [data |-> <<>>]

\* Queue::enqueue: self.data.push(item)
Queue_enqueue(q, item) == [q EXCEPT !.data = Append(@, item)]

\* Queue::dequeue: self.data.pop(), which removes and returns the last element
\* of the Vec.  The result is the queue afterwards and the Option returned.
Queue_dequeue(q) ==
    IF q.data = <<>>
        THEN [queue |-> q, ret |-> None]
        ELSE [queue |-> [q EXCEPT !.data = SubSeq(@, 1, Len(@) - 1)],
              ret |-> Some(q.data[Len(q.data)])]

QueueInit ==
    /\ queueData = Queue_new
    /\ queueLast = [op |-> "new", item |-> "", ret |-> None, pre |-> <<>>]

EnqueueStep ==
    \E item \in QueueItems :
        /\ Len(queueData.data) < MaxQueueLen
        /\ queueData' = Queue_enqueue(queueData, item)
        /\ queueLast' = [op |-> "enqueue", item |-> item, ret |-> None, pre |-> queueData.data]
        /\ UNCHANGED <<voteVars, favVars, chainVars, reqVars, poolVars, sendVars, builderVars, memVars, logVars, skipVars, bloomVars, counterVars, chanVars, bookVars>>

DequeueStep ==
    /\ queueData' = Queue_dequeue(queueData).queue
    /\ queueLast' = [op |-> "dequeue", item |-> "", ret |-> Queue_dequeue(queueData).ret,
                     pre |-> queueData.data]
    /\ UNCHANGED <<voteVars, favVars, chainVars, reqVars, poolVars, sendVars, builderVars, memVars, logVars, skipVars, bloomVars, counterVars, chanVars, bookVars>>

QueueNext == EnqueueStep \/ DequeueStep

(***************************************************************************)
(*                    9_data_structure.rs: SkipList                        *)
(***************************************************************************)
MaxSkipLen == 3

SkipItems == {1, 2, 3}

\* SkipList::new
SkipList_new == [data |-> <<>>]

\* SkipList::insert: self.data.push(item)
SkipList_insert_sorted(l, item) ==
    LET lower  == SelectSeq(l.data, LAMBDA x : x <= item)
        higher == SelectSeq(l.data, LAMBDA x : x > item)
    IN  [l EXCEPT !.data = lower \o <<item>> \o higher]
SkipList_insert(l, item) == [l EXCEPT !.data = Append(@, item)]

\* SkipList::search: self.data.contains(item)
SkipList_search(l, item) == \E i \in DOMAIN l.data : l.data[i] = item

SkipInit ==
    /\ skipData = SkipList_new
    /\ skipInserted = {}
    /\ skipLast = [op |-> "new", item |-> 0, ret |-> FALSE, pre |-> <<>>]

SkipInsertStep ==
    \E item \in SkipItems :
        /\ Len(skipData.data) < MaxSkipLen
        /\ skipData' = SkipList_insert(skipData, item)
        /\ skipInserted' = skipInserted \cup {item}
        /\ skipLast' = [op |-> "insert", item |-> item, ret |-> FALSE, pre |-> skipData.data]
        /\ UNCHANGED <<voteVars, favVars, chainVars, reqVars, poolVars, sendVars, builderVars, memVars, logVars, queueVars, bloomVars, counterVars, chanVars, bookVars>>

SkipSearchStep ==
    \E item \in SkipItems :
        /\ skipLast' = [op |-> "search", item |-> item, ret |-> SkipList_search(skipData, item),
                        pre |-> skipData.data]
        /\ UNCHANGED <<skipData, skipInserted>>
        /\ UNCHANGED <<voteVars, favVars, chainVars, reqVars, poolVars, sendVars, builderVars, memVars, logVars, queueVars, bloomVars, counterVars, chanVars, bookVars>>

SkipNext == SkipInsertStep \/ SkipSearchStep

(***************************************************************************)
(*                   9_data_structure.rs: BloomFilter                      *)
(***************************************************************************)
MaxBloomOps == 3

\* Values of hasher.finish() as usize for the items used, and the sizes init
\* is called with.
HashSamples == {0, 2, 999, 1000, 1999, 2002}
InitSizes   == {0, 3, 999, 1000, 1001}

\* BloomFilter::new
BloomFilter_new == [data |-> <<>>, size |-> 1000]

\* BloomFilter::init: self.data = vec![false; size]
BloomFilter_init_keeps_data(b, size) == b
BloomFilter_init(b, size) == [b EXCEPT !.data = [i \in 1..size |-> FALSE]]

\* let index = self.hash(item) % self.size;
BloomFilter_index(b, h) == h % b.size

\* self.data[index]: the Vec's elements are numbered from 0.
InBounds(b, index) == index < Len(b.data)

\* BloomFilter::insert: self.data[index] = true, a panic when out of bounds.
BloomFilter_insert(b, h) ==
    LET index == BloomFilter_index(b, h)
    IN  IF InBounds(b, index)
            THEN [filter |-> [b EXCEPT !.data[index + 1] = TRUE], result |-> "Ok"]
            ELSE [filter |-> b, result |-> "panic"]

\* BloomFilter::search: self.data[index], a panic when out of bounds.
BloomFilter_search(b, h) ==
    LET index == BloomFilter_index(b, h)
    IN  IF InBounds(b, index)
            THEN [filter |-> b, result |-> IF b.data[index + 1] THEN "true" ELSE "false"]
            ELSE [filter |-> b, result |-> "panic"]

BloomInit ==
    /\ bloom = BloomFilter_new
    /\ bloomInits = {}
    /\ bloomPanicked = FALSE
    /\ bloomLast = [op |-> "new", arg |-> 0, index |-> 0, result |-> "Ok", n |-> 0]

BloomInitStep ==
    \E size \in InitSizes :
        /\ ~bloomPanicked /\ bloomLast.n < MaxBloomOps
        /\ bloom' = BloomFilter_init(bloom, size)
        /\ bloomInits' = bloomInits \cup {size}
        /\ bloomLast' = [op |-> "init", arg |-> size, index |-> 0, result |-> "Ok",
                         n |-> bloomLast.n + 1]
        /\ UNCHANGED bloomPanicked
        /\ UNCHANGED <<voteVars, favVars, chainVars, reqVars, poolVars, sendVars, builderVars, memVars, logVars, queueVars, skipVars, counterVars, chanVars, bookVars>>

BloomInsertStep ==
    \E h \in HashSamples :
        LET out == BloomFilter_insert(bloom, h)
        IN  /\ ~bloomPanicked /\ bloomLast.n < MaxBloomOps
            /\ bloom' = out.filter
            /\ bloomPanicked' = (out.result = "panic")
            /\ bloomLast' = [op |-> "insert", arg |-> h, index |-> BloomFilter_index(bloom, h),
                             result |-> out.result, n |-> bloomLast.n + 1]
            /\ UNCHANGED bloomInits
            /\ UNCHANGED <<voteVars, favVars, chainVars, reqVars, poolVars, sendVars, builderVars, memVars, logVars, queueVars, skipVars, counterVars, chanVars, bookVars>>

BloomSearchStep ==
    \E h \in HashSamples :
        LET out == BloomFilter_search(bloom, h)
        IN  /\ ~bloomPanicked /\ bloomLast.n < MaxBloomOps
            /\ bloom' = out.filter
            /\ bloomPanicked' = (out.result = "panic")
            /\ bloomLast' = [op |-> "search", arg |-> h, index |-> BloomFilter_index(bloom, h),
                             result |-> out.result, n |-> bloomLast.n + 1]
            /\ UNCHANGED bloomInits
            /\ UNCHANGED <<voteVars, favVars, chainVars, reqVars, poolVars, sendVars, builderVars, memVars, logVars, queueVars, skipVars, counterVars, chanVars, bookVars>>

BloomNext == BloomInitStep \/ BloomInsertStep \/ BloomSearchStep

(***************************************************************************)
(*               6_advanced_features.rs: shared_state                      *)
(***************************************************************************)
\* for _ in 0..10
NumCounterThreads == 10

CounterThreads == 1..NumCounterThreads

\* Mutex::lock returns once no other guard is alive.
MutexFreeAlways(holder) == TRUE
MutexFree(holder) == holder = 0

\* Arc::new(Mutex::new(0)); no thread spawned yet.
CounterInit ==
    /\ counterValue = 0
    /\ counterHolder = 0
    /\ counterThreads = [t \in CounterThreads |-> [pc |-> "unspawned", num |-> 0]]
    /\ counterMain = [pc |-> "spawn", i |-> 0, result |-> 0]

\* One turn of the spawning loop: thread i + 1 starts running.
CounterSpawnStep ==
    /\ counterMain.pc = "spawn"
    /\ counterThreads' = [counterThreads EXCEPT ![counterMain.i + 1].pc = "lock"]
    /\ counterMain' = [counterMain EXCEPT
                          !.i = IF @ + 1 = NumCounterThreads THEN 0 ELSE @ + 1,
                          !.pc = IF counterMain.i + 1 = NumCounterThreads
                                    THEN "join" ELSE "spawn"]
    /\ UNCHANGED <<counterValue, counterHolder>>
    /\ UNCHANGED <<voteVars, favVars, chainVars, reqVars, poolVars, sendVars, builderVars, memVars, logVars, queueVars, skipVars, bloomVars, chanVars, bookVars>>

\* let mut num = counter.lock().unwrap();  and the read half of *num += 1
CounterLockStep ==
    \E t \in CounterThreads :
        /\ counterThreads[t].pc = "lock"
        /\ MutexFree(counterHolder)
        /\ counterHolder' = t
        /\ counterThreads' = [counterThreads EXCEPT ![t] = [pc |-> "add", num |-> counterValue]]
        /\ UNCHANGED <<counterValue, counterMain>>
        /\ UNCHANGED <<voteVars, favVars, chainVars, reqVars, poolVars, sendVars, builderVars, memVars, logVars, queueVars, skipVars, bloomVars, chanVars, bookVars>>

\* The write half of *num += 1.
CounterAddStep ==
    \E t \in CounterThreads :
        /\ counterThreads[t].pc = "add"
        /\ counterValue' = counterThreads[t].num + 1
        /\ counterThreads' = [counterThreads EXCEPT ![t] = [pc |-> "unlock", num |-> 0]]
        /\ UNCHANGED <<counterHolder, counterMain>>
        /\ UNCHANGED <<voteVars, favVars, chainVars, reqVars, poolVars, sendVars, builderVars, memVars, logVars, queueVars, skipVars, bloomVars, chanVars, bookVars>>

\* The closure ends: the guard is dropped and the thread finishes.
CounterUnlockStep ==
    \E t \in CounterThreads :
        /\ counterThreads[t].pc = "unlock"
        /\ counterHolder' = 0
        /\ counterThreads' = [counterThreads EXCEPT ![t] = [pc |-> "done", num |-> 0]]
        /\ UNCHANGED <<counterValue, counterMain>>
        /\ UNCHANGED <<voteVars, favVars, chainVars, reqVars, poolVars, sendVars, builderVars, memVars, logVars, queueVars, skipVars, bloomVars, chanVars, bookVars>>

\* One turn of `for handle in handles { handle.join().unwrap(); }`.
CounterJoinStep ==
    /\ counterMain.pc = "join"
    /\ counterThreads[counterMain.i + 1].pc = "done"
    /\ counterMain' = [counterMain EXCEPT
                          !.i = @ + 1,
                          !.pc = IF counterMain.i + 1 = NumCounterThreads
                                    THEN "print" ELSE "join"]
    /\ UNCHANGED <<counterValue, counterHolder, counterThreads>>
    /\ UNCHANGED <<voteVars, favVars, chainVars, reqVars, poolVars, sendVars, builderVars, memVars, logVars, queueVars, skipVars, bloomVars, chanVars, bookVars>>

\* println!("Result: {}", *counter.lock().unwrap());  the guard is a
\* temporary dropped at the end of the statement.
CounterPrintStep ==
    /\ counterMain.pc = "print"
    /\ MutexFree(counterHolder)
    /\ counterMain' = [counterMain EXCEPT !.pc = "done", !.result = counterValue]
    /\ UNCHANGED <<counterValue, counterHolder, counterThreads>>
    /\ UNCHANGED <<voteVars, favVars, chainVars, reqVars, poolVars, sendVars, builderVars, memVars, logVars, queueVars, skipVars, bloomVars, chanVars, bookVars>>

CounterNext ==
    \/ CounterSpawnStep \/ CounterLockStep \/ CounterAddStep \/ CounterUnlockStep
    \/ CounterJoinStep \/ CounterPrintStep

(***************************************************************************)
(*              6_advanced_features.rs: message_passing                    *)
(***************************************************************************)
\* The vals of the two spawned threads; the first sends on tx1, the second on tx.
SenderVals ==
    <<  <<"hi", "from", "the", "thread">>,
        <<"more", "messages", "for", "you">>  >>

Senders == DOMAIN SenderVals

\* Sender::send on an mpsc channel: the value joins the back of the queue.
ChannelSendFront(q, val) == <<val>> \o q
ChannelSend(q, val) == Append(q, val)

\* let (tx, rx) = mpsc::channel(); let tx1 = tx.clone(); both threads spawned.
ChanInit ==
    /\ chanQueue = <<>>
    /\ chanSenders = [s \in Senders |-> [pc |-> "send", sent |-> 0]]
    /\ chanReceived = <<>>
    /\ chanReceiver = "running"

\* tx.send(val).unwrap(): send fails, and the unwrap panics, only when the
\* receiver is gone.
ChanSendStep ==
    \E s \in Senders :
        /\ chanSenders[s].pc = "send"
        /\ chanReceiver = "running"
        /\ chanQueue' = ChannelSend(chanQueue, SenderVals[s][chanSenders[s].sent + 1])
        /\ chanSenders' = [chanSenders EXCEPT ![s] = [pc |-> "sleep", sent |-> @.sent + 1]]
        /\ UNCHANGED <<chanReceived, chanReceiver>>
        /\ UNCHANGED <<voteVars, favVars, chainVars, reqVars, poolVars, sendVars, builderVars, memVars, logVars, queueVars, skipVars, bloomVars, counterVars, bookVars>>

\* thread::sleep(Duration::from_secs(1)), then the next turn of the loop; after
\* the last value the closure ends and its sending end is dropped.
ChanSleepStep ==
    \E s \in Senders :
        /\ chanSenders[s].pc = "sleep"
        /\ chanSenders' = [chanSenders EXCEPT ![s].pc =
                               IF chanSenders[s].sent = Len(SenderVals[s])
                                   THEN "done" ELSE "send"]
        /\ UNCHANGED <<chanQueue, chanReceived, chanReceiver>>
        /\ UNCHANGED <<voteVars, favVars, chainVars, reqVars, poolVars, sendVars, builderVars, memVars, logVars, queueVars, skipVars, bloomVars, counterVars, bookVars>>

\* One turn of `for received in rx`: the oldest queued value is taken.
ChanRecvStep ==
    /\ chanReceiver = "running"
    /\ chanQueue # <<>>
    /\ chanReceived' = Append(chanReceived, Head(chanQueue))
    /\ chanQueue' = Tail(chanQueue)
    /\ UNCHANGED <<chanSenders, chanReceiver>>
    /\ UNCHANGED <<voteVars, favVars, chainVars, reqVars, poolVars, sendVars, builderVars, memVars, logVars, queueVars, skipVars, bloomVars, counterVars, bookVars>>

\* The iterator ends: the channel is empty and every sending end is dropped.
ChanCloseStep ==
    /\ chanReceiver = "running"
    /\ chanQueue = <<>>
    /\ \A s \in Senders : chanSenders[s].pc = "done"
    /\ chanReceiver' = "done"
    /\ UNCHANGED <<chanQueue, chanSenders, chanReceived>>
    /\ UNCHANGED <<voteVars, favVars, chainVars, reqVars, poolVars, sendVars, builderVars, memVars, logVars, queueVars, skipVars, bloomVars, counterVars, bookVars>>

ChanNext == ChanSendStep \/ ChanSleepStep \/ ChanRecvStep \/ ChanCloseStep

(***************************************************************************)
(*                          5_exercises.rs: Book                           *)
(***************************************************************************)
NoBook == [exists |-> FALSE]

BookTitles  == {"Rust", "TLA", ""}
BookAuthors == {"Steve Klabnik", ""}
BookPages   == {0, 1, 500}

\* Book::new: the body builds the struct from String::new(), String::new(),
\* 0 and false; the three parameters are not used.
Book_new(title, author, pages) ==
    [exists |-> TRUE, title |-> "", author |-> "", pages |-> 0, available |-> FALSE]

\* Book::borrow_book: Ok(()) when self.available, and otherwise Err of the
\* message literal of line 61 (written here by its meaning, "not
\* implemented"); no field is assigned on either path.  The result is the
\* book afterwards and the Result returned.
Book_borrow_book(b) ==
    IF b.available
        THEN [book |-> b, ret |-> Ok("unit")]
        ELSE [book |-> b, ret |-> Err("not implemented")]

\* Book::return_book: self.available = true
Book_return_book(b) == [b EXCEPT !.available = TRUE]

BookInit ==
    /\ book = NoBook
    /\ bookArgs = [title |-> "", author |-> "", pages |-> 0]
    /\ bookOnLoan = FALSE
    /\ bookLast = [op |-> "none", ret |-> Ok("unit"), pre |-> NoBook, preOnLoan |-> FALSE]

\* let mut book = Book::new(title, author, pages)
BookNewStep ==
    \E title \in BookTitles, author \in BookAuthors, pages \in BookPages :
        /\ book' = Book_new(title, author, pages)
        /\ bookArgs' = [title |-> title, author |-> author, pages |-> pages]
        /\ bookOnLoan' = FALSE
        /\ bookLast' = [op |-> "new", ret |-> Ok("unit"), pre |-> book, preOnLoan |-> bookOnLoan]
        /\ UNCHANGED <<voteVars, favVars, chainVars, reqVars, poolVars, sendVars, builderVars, memVars, logVars, queueVars, skipVars, bloomVars, counterVars, chanVars>>

\* book.borrow_book()
BorrowBookStep ==
    /\ book.exists
    /\ book' = Book_borrow_book(book).book
    /\ bookOnLoan' = (bookOnLoan \/ Book_borrow_book(book).ret.ok)
    /\ bookLast' = [op |-> "borrow_book", ret |-> Book_borrow_book(book).ret,
                    pre |-> book, preOnLoan |-> bookOnLoan]
    /\ UNCHANGED bookArgs
    /\ UNCHANGED <<voteVars, favVars, chainVars, reqVars, poolVars, sendVars, builderVars, memVars, logVars, queueVars, skipVars, bloomVars, counterVars, chanVars>>

\* book.return_book()
ReturnBookStep ==
    /\ book.exists
    /\ book' = Book_return_book(book)
    /\ bookOnLoan' = FALSE
    /\ bookLast' = [op |-> "return_book", ret |-> Ok("unit"), pre |-> book, preOnLoan |-> bookOnLoan]
    /\ UNCHANGED bookArgs
    /\ UNCHANGED <<voteVars, favVars, chainVars, reqVars, poolVars, sendVars, builderVars, memVars, logVars, queueVars, skipVars, bloomVars, counterVars, chanVars>>

BookNext == BookNewStep \/ BorrowBookStep \/ ReturnBookStep

(***************************************************************************)
(*                           specifications                                *)
(***************************************************************************)
Init == VoteInit /\ FavInit /\ ChainInit /\ ReqInit /\ PoolInit /\ SendInit /\ BuilderInit /\ MemInit /\ LogInit /\ QueueInit /\ SkipInit /\ BloomInit /\ CounterInit /\ ChanInit /\ BookInit

SpecVote == Init /\ [][VoteNext]_vars

SpecFav == Init /\ [][FavNext]_vars

SpecChain == Init /\ [][ChainNext]_vars

SpecReq == Init /\ [][ReqNext]_vars

SpecPool == Init /\ [][PoolNext]_vars

SpecHttp == Init /\ [][SendNext]_vars

SpecBuilder == Init /\ [][BuilderNext]_vars

SpecMem == Init /\ [][MemNext]_vars

\* The worker is a thread of its own: it is scheduled as long as it can run.
SpecLogger == Init /\ [][LogNext]_vars /\ WF_vars(WorkerStep)

SpecQueue == Init /\ [][QueueNext]_vars

SpecSkipList == Init /\ [][SkipNext]_vars

SpecBloom == Init /\ [][BloomNext]_vars

\* The program keeps running as long as one of its threads can take a step.
SpecCounter == Init /\ [][CounterNext]_vars /\ WF_vars(CounterNext)

\* The program keeps running as long as one of its threads can take a step.
SpecChannel == Init /\ [][ChanNext]_vars /\ WF_vars(ChanNext)

SpecBook == Init /\ [][BookNext]_vars

(***************************************************************************)
(*                               claims                                    *)
(***************************************************************************)

\* C1 (as claimed): for a vote on existing accounts at clock time t against a
\* poll with bounds start and end, t > end gives VotingEnded; otherwise
\* t < start gives VotingNotStarted; a failed vote leaves the candidates and the
\* polls as they were; and a vote at t = start or t = end inside the window
\* start <= t <= end is accepted.
C1_VoteTimeWindow ==
    (voteLast.op = "vote" /\ voteLast.result # "AccountNotInitialized") =>
        LET poll == voteLast.prePolls[voteLast.poll_id]
            s    == poll.poll_vote_start
            e    == poll.poll_vote_end
            t    == voteLast.time
        IN  /\ t > e => voteLast.result = "VotingEnded"
            /\ (t <= e /\ t < s) => voteLast.result = "VotingNotStarted"
            /\ voteLast.result # "Ok" =>
                   (candidates = voteLast.preCands /\ polls = voteLast.prePolls)
            /\ ((t = s \/ t = e) /\ s <= t /\ t <= e) => voteLast.result = "Ok"

\* C2 (as claimed): once a user has called initialize or update, the user's
\* favorites account exists and holds exactly the values of that user's most
\* recent call (so no other user's call has changed it).
C2_HoldsMostRecentCall ==
    \A u \in Users :
        favRecent[u] # NoArgs =>
            favorites[<<"favorites", u>>] = FavAccount(favRecent[u])

\* C2 (amended): each user's favorites account exists exactly from the user's
\* first successful call on and holds exactly the values of that user's most
\* recent successful call; a call whose values do not fit the account's space
\* fails and changes no account, and no call changes another user's account.
C2_HoldsMostRecentSuccessfulCall ==
    \A u \in Users :
        favorites[<<"favorites", u>>] =
            IF favRecentOk[u] = NoArgs THEN NoAccount ELSE FavAccount(favRecentOk[u])

\* C2 witness: alice has an account and her most recent call failed; bob has
\* since written different values to his own account by an initialize.
C2_Witness ==
    /\ favorites[<<"favorites", "alice">>].exists
    /\ favRecent["alice"] # favRecentOk["alice"]
    /\ favLast.op = "initialize" /\ favLast.user = "bob" /\ favLast.result = "Ok"
    /\ favorites[<<"favorites", "bob">>] # favorites[<<"favorites", "alice">>]

\* C3: after a successful create_wallet the wallet is the account at the
\* payer's PDA, owned by the System Program with no data, its balance is
\* initial_lamports, the payer has paid exactly that, the sum of the two
\* balances is what it was, and no other account has changed.
C3_CreateWalletMovesLamports ==
    (chainLast.op = "create_wallet" /\ chainLast.result = "Ok") =>
        LET p == chainLast.payer
            w == chainLast.wallet
            n == chainLast.initial_lamports
        IN  /\ w = "wallet:" \o p
            /\ owner[w] = "System" /\ space[w] = 0
            /\ lamports[w] = n
            /\ lamports[p] = chainLast.preLamports[p] - n
            /\ lamports[p] + lamports[w] = chainLast.preLamports[p] + chainLast.preLamports[w]
            /\ \A k \in Keys \ {p, w} :
                   /\ lamports[k] = chainLast.preLamports[k]
                   /\ owner[k] = chainLast.preOwner[k]
                   /\ space[k] = chainLast.preSpace[k]

\* C3 witness: a create_wallet that succeeded and moved a positive amount.
C3_Witness ==
    /\ chainLast.op = "create_wallet" /\ chainLast.result = "Ok"
    /\ chainLast.initial_lamports > 0
    /\ lamports[chainLast.wallet] = chainLast.initial_lamports

\* C4 (as claimed): two create_wallet calls by the same payer address the same
\* wallet account exactly when their seed strings are equal.
C4_SeedInDerivation ==
    \A c1 \in walletCalls, c2 \in walletCalls :
        c1[1] = c2[1] => ((c1[2] = c2[2]) <=> (c1[3] = c2[3]))

\* C5: get_balance on an account owned by the System Program succeeds and
\* appends exactly one BalanceEvent carrying the account's key and its balance
\* at the time of the call; whatever its outcome, every balance, owner and
\* data length is what it was before.
C5_GetBalanceReadOnly ==
    chainLast.op = "get_balance" =>
        /\ lamports = chainLast.preLamports
        /\ owner = chainLast.preOwner
        /\ space = chainLast.preSpace
        /\ IF chainLast.preOwner[chainLast.wallet] = "System"
              THEN /\ chainLast.result = "Ok"
                   /\ events = Append(chainLast.preEvents,
                                      [wallet |-> chainLast.wallet,
                                       lamports |-> chainLast.preLamports[chainLast.wallet]])
              ELSE /\ chainLast.result # "Ok"
                   /\ events = chainLast.preEvents

\* C5 witness: the balance of an account this program did not create, which
\* did not sign, has been reported after an earlier report.
C5_Witness ==
    /\ chainLast.op = "get_balance" /\ chainLast.result = "Ok"
    /\ chainLast.wallet = "wallet:bob" /\ ~chainLast.signed
    /\ Len(events) = 2
    /\ events[2].lamports = 2

\* C9: HttpRequest::new returns Err(UrlParseError) exactly when the URL starts
\* with neither "http://" nor "https://"; otherwise it returns Ok with a request
\* that has the given method, the URL unchanged, no headers, no body and no
\* timeout.
C9_NewValidatesScheme ==
    reqLast.op = "new" =>
        LET ret       == reqLast.ret
            hasScheme == \E p \in {"http://", "https://"} : StartsWith(reqLast.url, p)
        IN  /\ ret.ok <=> hasScheme
            /\ ~ret.ok => (ret.error = "UrlParseError" /\ req = reqLast.preReq)
            /\ ret.ok =>
                   /\ req = ret.value
                   /\ req.method = reqLast.method
                   /\ req.url = reqLast.url
                   /\ DOMAIN req.headers = {}
                   /\ req.body = None
                   /\ req.timeout = None

\* C9 witness: a request with an accepted URL has been created where the
\* previous request carried headers, a body and a timeout.
C9_Witness ==
    /\ reqLast.op = "new" /\ reqLast.ret.ok /\ reqLast.url = "http://a"
    /\ reqLast.preReq.exists
    /\ DOMAIN reqLast.preReq.headers # {}
    /\ reqLast.preReq.body # None
    /\ reqLast.preReq.timeout # None

\* C10: AuthMiddleware.process_request returns Ok and sets exactly one header,
\* added or replaced: Authorization = "Bearer <token>" for Bearer,
\* Authorization = "Basic <token>" for Basic, <header_name> = <token> for
\* ApiKey(header_name); method, URL, body, timeout and every other header stay
\* as they were.  Its process_response returns Ok and changes nothing.
C10_AuthSetsOneHeader ==
    /\ reqLast.op = "process_request" =>
           LET mw  == reqLast.auth
               pre == reqLast.preReq
               key == IF mw.auth_type = "ApiKey" THEN mw.header_name ELSE "Authorization"
               val == CASE mw.auth_type = "Bearer" -> "Bearer " \o mw.token
                        [] mw.auth_type = "Basic"  -> "Basic " \o mw.token
                        [] mw.auth_type = "ApiKey" -> mw.token
           IN  /\ reqLast.ret.ok
               /\ DOMAIN req.headers = DOMAIN pre.headers \cup {key}
               /\ req.headers[key] = val
               /\ \A k \in DOMAIN pre.headers \ {key} : req.headers[k] = pre.headers[k]
               /\ req.method = pre.method /\ req.url = pre.url
               /\ req.body = pre.body /\ req.timeout = pre.timeout
               /\ resp = reqLast.preResp
    /\ reqLast.op = "process_response" =>
           /\ reqLast.ret.ok
           /\ resp = reqLast.preResp
           /\ req = reqLast.preReq

\* C10 witness: a Basic middleware has replaced an Authorization header that
\* held another value, on a request that carries a second header, a body and
\* a timeout.
C10_Witness ==
    /\ reqLast.op = "process_request" /\ reqLast.auth.auth_type = "Basic"
    /\ "Authorization" \in DOMAIN reqLast.preReq.headers
    /\ reqLast.preReq.headers["Authorization"] = "custom-value"
    /\ req.headers["Authorization"] = "Basic test-token"
    /\ "X-Custom-Header" \in DOMAIN req.headers
    /\ req.body # None /\ req.timeout # None

\* C6 (as claimed): when an execution yields a response whose status is listed
\* in retry_config.retry_on_status and fewer than max_retries retries have been
\* made, send waits retry_delay and executes the request again before it
\* returns.
C6_RetriesOnListedStatus ==
    sendCall.pc = "done" =>
        \A k \in 1..Len(sendCall.outcomes) :
            LET listed == \E i \in DOMAIN sendClient.retry_config.retry_on_status :
                              sendClient.retry_config.retry_on_status[i]
                                  = sendCall.outcomes[k].value.status
            IN  (sendCall.outcomes[k].ok /\ listed /\ k <= sendClient.retry_config.max_retries)
                    => (Len(sendCall.outcomes) > k /\ sendCall.sleeps >= k)

RECURSIVE GuardsOf(_)
GuardsOf(ts) ==
    IF ts = {} THEN 0
    ELSE LET t == CHOOSE x \in ts : TRUE IN guards[t] + GuardsOf(ts \ {t})

\* C8 (as claimed): for a pool created with max_connections = n,
\* available_connections() is n minus the number of live guards and lies in
\* 0..n; each completed acquire lowers it by one and each dropped guard raises
\* it by one; no acquire fails with PoolExhausted.
C8_AvailableIsMaxMinusGuards ==
    pool.exists =>
        /\ available_connections(pool) = pool.max_connections - GuardsOf(Tasks)
        /\ available_connections(pool) \in 0..pool.max_connections
        /\ poolLast.result # "PoolExhausted"
        /\ poolLast.op = "acquired" => available_connections(pool) = poolLast.before - 1
        /\ poolLast.op = "dropped" => available_connections(pool) = poolLast.before + 1

\* C8 (amended): available_connections() lies in 0..n and is n minus the live
\* guards minus the permits handed to acquires that have not resumed yet.  An
\* acquire that finds a permit lowers it by one.  A dropped guard raises it by
\* one when no acquire is pending; otherwise its permit goes to the
\* longest-pending acquire and the count stays 0, and the count does not
\* change when that acquire completes.  An acquire issued while the count is 0
\* stays pending, acquires wait in the queue only while the count is 0, and
\* none fails with PoolExhausted.
C8_AvailableCountsHandedPermits ==
    pool.exists =>
        /\ available_connections(pool)
               = pool.max_connections - GuardsOf(Tasks) - Cardinality(granted)
        /\ available_connections(pool) \in 0..pool.max_connections
        /\ poolLast.result # "PoolExhausted"
        /\ waiters # <<>> => available_connections(pool) = 0
        /\ (poolLast.op = "acquired" /\ ~poolLast.waited) =>
               (poolLast.before >= 1 /\ available_connections(pool) = poolLast.before - 1)
        /\ (poolLast.op = "acquired" /\ poolLast.waited) =>
               available_connections(pool) = poolLast.before
        /\ (poolLast.op = "dropped" /\ ~poolLast.waited) =>
               available_connections(pool) = poolLast.before + 1
        /\ (poolLast.op = "dropped" /\ poolLast.waited) =>
               (poolLast.before = 0 /\ available_connections(pool) = 0)
        /\ poolLast.op = "acquire_pending" =>
               (poolLast.before = 0 /\ available_connections(pool) = 0)

\* C8 witness: an acquire issued while no connection was available has
\* completed after another task dropped a guard, and the pool of two is fully
\* in use.
C8_Witness ==
    /\ pool.exists /\ pool.max_connections = 2
    /\ poolLast.op = "acquired" /\ poolLast.waited
    /\ GuardsOf(Tasks) = 2
    /\ available_connections(pool) = 0

\* The argument of the last call of `op` in a call log, or `default` when the
\* log has no such call.
RECURSIVE LastArg(_, _, _)
LastArg(calls, op, default) ==
    IF calls = <<>> THEN default
    ELSE IF calls[Len(calls)].op = op THEN calls[Len(calls)].arg
    ELSE LastArg(SubSeq(calls, 1, Len(calls) - 1), op, default)

\* The arguments of the calls of `op` in a call log, in call order.
RECURSIVE ArgsOf(_, _)
ArgsOf(calls, op) ==
    IF calls = <<>> THEN <<>>
    ELSE IF Head(calls).op = op THEN <<Head(calls).arg>> \o ArgsOf(Tail(calls), op)
    ELSE ArgsOf(Tail(calls), op)

\* C11: the client build returns has a pool with exactly pool_size available
\* connections, the builder's timeout and retry configuration, and exactly the
\* middlewares added to the builder in the order they were added; an option no
\* call has set keeps its default (10 connections, 30 s, RetryConfig::default()).
C11_BuildKeepsBuilderValues ==
    (builtClient.exists /\ ~builder.exists) =>
        LET c == builtClient.client IN
        /\ available_connections(c.pool) = LastArg(builderCalls, "pool_size", 10)
        /\ c.pool.max_connections = LastArg(builderCalls, "pool_size", 10)
        /\ c.default_timeout = LastArg(builderCalls, "timeout", 30000)
        /\ c.retry_config = LastArg(builderCalls, "retry_config", RetryConfig_default)
        /\ c.middlewares = ArgsOf(builderCalls, "add_middleware")

\* C11 witness: a client built after pool_size(5), two different middlewares
\* and no retry_config call: five connections, both middlewares in call
\* order, the default retry configuration.
C11_Witness ==
    /\ builtClient.exists /\ ~builder.exists
    /\ LastArg(builderCalls, "pool_size", 10) = 5
    /\ available_connections(builtClient.client.pool) = 5
    /\ builtClient.client.middlewares
           = <<AuthMiddleware_bearer("your-api-token"), LoggingMiddleware_new>>
    /\ ArgsOf(builderCalls, "retry_config") = <<>>
    /\ builtClient.client.retry_config = RetryConfig_default

\* The block of pool p with the given id, as a set (empty when no block has it).
BlocksWithId(p, id) == {i \in DOMAIN p.blocks : p.blocks[i].id = id}

\* C12 (as claimed): whenever a MemoryHandle is dropped the block with the
\* handle's id is free afterwards (so a later allocate can return it), and
\* once no handle is alive every block of the pool is free.
C12_DropFreesBlock ==
    /\ memLast.op = "drop" =>
           \A i \in BlocksWithId(memPool, memLast.id) : memPool.blocks[i].is_free
    /\ memHandles = EmptyBag =>
           \A i \in DOMAIN memPool.blocks : memPool.blocks[i].is_free

\* C13: free(id) returns Ok exactly when a block with that id exists and is
\* allocated, and then marks that block free and leaves the other blocks alone;
\* it returns the "already free" error when the block exists and is free, the
\* "invalid id" error when no block has the id, and in both error cases the
\* pool (blocks and total_allocated) is what it was before the call.
C13_FreeChecksBlockState ==
    memLast.op = "free" =>
        LET pre == memLast.pre
            hit == BlocksWithId(pre, memLast.id)
        IN  /\ Cardinality(hit) <= 1
            /\ memLast.result \in {"Ok", "AlreadyFree", "InvalidId"}
            /\ memLast.result = "Ok" <=> \E i \in hit : ~pre.blocks[i].is_free
            /\ memLast.result = "AlreadyFree" <=> \E i \in hit : pre.blocks[i].is_free
            /\ memLast.result = "InvalidId" <=> hit = {}
            /\ memLast.result = "Ok" =>
                   /\ DOMAIN memPool.blocks = DOMAIN pre.blocks
                   /\ \A i \in DOMAIN pre.blocks :
                          memPool.blocks[i] = IF i \in hit
                                                 THEN [pre.blocks[i] EXCEPT !.is_free = TRUE]
                                                 ELSE pre.blocks[i]
            /\ memLast.result # "Ok" => memPool = pre

\* C13 witness: free was called on the id of a block whose handle had already
\* been dropped, while another block was still allocated; it returned the
\* "already free" error.
C13_Witness ==
    /\ memLast.op = "free" /\ memLast.result = "AlreadyFree"
    /\ \E i \in DOMAIN memPool.blocks : ~memPool.blocks[i].is_free
    /\ memPool.total_allocated > 0
    /\ memPool = memLast.pre

\* The position of a level in the order Debug < Info < Warn < Error.
LevelRank(l) == CHOOSE i \in DOMAIN LogLevel : LogLevel[i] = l

\* C14: a log call hands its entry to the worker exactly when its level is at
\* least the min_level in force at the call (the one the last update_config
\* installed, or the initial one); a filtered call returns Ok with nothing
\* queued or about to be queued for it; a handed entry is sent exactly once.
C14_LogFiltersByMinLevel ==
    /\ logLast.op = "log" =>
           /\ logLast.handed <=> LevelRank(logLast.level) >= LevelRank(logLast.min)
           /\ logLast.min = logInForce
           /\ Len(logSent) = logLast.sentBefore
           /\ logLast.handed =>
                  /\ logCalls[logLast.thread].pc = "send"
                  /\ logCalls[logLast.thread].entry.level = logLast.level
           /\ ~logLast.handed =>
                  /\ logLast.result = "Ok"
                  /\ logCalls[logLast.thread].pc = "idle"
    /\ logLast.op = "send" =>
           /\ logLast.result = "Ok"
           /\ Len(logSent) = logLast.sentBefore + 1
           /\ logSent[Len(logSent)].kind = "Entry"
           /\ logSent[Len(logSent)].level = logLast.level
           /\ logCalls[logLast.thread].pc = "idle"
    /\ logLast.op = "update_config" => logConfig.min_level = logLast.level

\* C14 witness: after update_config raised min_level to Error, a Warn call was
\* filtered out although an earlier call had been handed over and sent.
C14_Witness ==
    /\ logLast.op = "log" /\ logLast.level = "Warn" /\ ~logLast.handed
    /\ logInForce = "Error"
    /\ Len(logSent) >= 1

\* The entries of a send log that precede its Shutdown message (all of them
\* when there is none).
RECURSIVE EntriesBefore(_)
EntriesBefore(sent) ==
    IF sent = <<>> \/ Head(sent).kind = "Shutdown" THEN <<>>
    ELSE <<Head(sent)>> \o EntriesBefore(Tail(sent))

IsPrefix(s, t) == Len(s) <= Len(t) /\ SubSeq(t, 1, Len(s)) = s

\* C15 (as claimed): the worker processes entries in the order they were
\* enqueued and none enqueued after Shutdown; when it has stopped it has
\* processed every entry enqueued before Shutdown (or before the Logger was
\* dropped); and once the Logger is shut down or dropped the worker does
\* process all of them and stop.
C15_GracefulShutdown ==
    /\ [](IsPrefix(logProcessed, EntriesBefore(logSent)))
    /\ [](logWorker = "stopped" => logProcessed = EntriesBefore(logSent))
    /\ [](logLogger # "alive" =>
             <>(logWorker = "stopped" /\ logProcessed = EntriesBefore(logSent)))

\* C16 (as claimed): enqueue adds the item behind the items already queued;
\* dequeue returns None exactly when the queue is empty, and otherwise removes
\* and returns the oldest item still in the queue, leaving the younger ones
\* in their order.
C16_QueueIsFifo ==
    /\ queueLast.op = "enqueue" => queueData.data = Append(queueLast.pre, queueLast.item)
    /\ queueLast.op = "dequeue" =>
           /\ queueLast.ret.some <=> queueLast.pre # <<>>
           /\ queueLast.pre = <<>> => queueData.data = <<>>
           /\ queueLast.pre # <<>> =>
                  /\ queueLast.ret.value = Head(queueLast.pre)
                  /\ queueData.data = Tail(queueLast.pre)

\* C17: insert appends its item at the end of the sequence, whatever the
\* sequence holds (no ordering, no deduplication, nothing else moved), and
\* search(x) returns true exactly when x has been inserted at least once and
\* changes nothing.
C17_SkipListIsLinear ==
    /\ skipLast.op = "insert" => skipData.data = Append(skipLast.pre, skipLast.item)
    /\ skipLast.op = "search" =>
           /\ skipLast.ret <=> skipLast.item \in skipInserted
           /\ skipData.data = skipLast.pre

\* C17 witness: the list holds an item twice and out of order, and a search
\* for an item never inserted has just returned false.
C17_Witness ==
    /\ skipData.data = <<3, 1, 3>>
    /\ skipLast.op = "search" /\ skipLast.item = 2 /\ ~skipLast.ret

CounterAdded == {t \in CounterThreads : counterThreads[t].pc \in {"unlock", "done"}}

\* C19: under every interleaving the counter equals the number of threads
\* that have incremented it (no update is lost), at most one thread is
\* between lock and unlock, main prints only after every thread has
\* finished, the value it prints is 10, and main does get there: every thread
\* terminates and is joined.
C19_CounterReachesTen ==
    /\ [](counterValue = Cardinality(CounterAdded))
    /\ [](Cardinality({t \in CounterThreads : counterThreads[t].pc \in {"add", "unlock"}}) <= 1)
    /\ [](counterMain.pc = "done" =>
             /\ counterMain.result = 10
             /\ \A t \in CounterThreads : counterThreads[t].pc = "done")
    /\ <>(counterMain.pc = "done" /\ counterMain.result = 10)

\* C19 witness: all ten threads have incremented and been joined, and main
\* has read 10.
C19_Witness ==
    /\ counterMain.pc = "done" /\ counterMain.result = 10
    /\ Cardinality(CounterAdded) = 10
    /\ counterHolder = 0

\* The values of sender s among the values received, in the order received.
ReceivedFrom(s) ==
    SelectSeq(chanReceived, LAMBDA v : \E i \in DOMAIN SenderVals[s] : SenderVals[s][i] = v)

\* C20: the values received from each sender are always the first values
\* that sender sent, in its order, each once; the loop ends only when both
\* senders have finished and nothing is queued, having received all eight
\* values; and the loop does end.
C20_ChannelDeliversAllInOrder ==
    /\ [](\A s \in Senders :
              /\ IsPrefix(ReceivedFrom(s), SenderVals[s])
              /\ Len(ReceivedFrom(s)) <= chanSenders[s].sent)
    /\ [](Len(chanReceived) = Len(ReceivedFrom(1)) + Len(ReceivedFrom(2)))
    /\ [](chanReceiver = "done" =>
              /\ \A s \in Senders : chanSenders[s].pc = "done" /\ ReceivedFrom(s) = SenderVals[s]
              /\ Len(chanReceived) = 8
              /\ chanQueue = <<>>)
    /\ <>(chanReceiver = "done")

\* C20 witness: the loop has ended with all eight values received and the two
\* senders' values interleaved.
C20_Witness ==
    /\ chanReceiver = "done" /\ Len(chanReceived) = 8
    /\ chanReceived[1] = "more" /\ chanReceived[2] = "hi" /\ chanReceived[8] = "thread"

\* C21 (as claimed): borrow_book on an available book returns Ok(()) and
\* leaves the book unavailable; on an unavailable book it returns an error
\* and leaves the book as it was; return_book leaves the book available; and
\* no borrow_book returns Ok(()) while an earlier successful borrow_book has
\* not been followed by a return_book.
C21_BorrowMarksUnavailable ==
    /\ (bookLast.op = "borrow_book" /\ bookLast.pre.available) =>
           /\ bookLast.ret = Ok("unit")
           /\ book = [bookLast.pre EXCEPT !.available = FALSE]
    /\ (bookLast.op = "borrow_book" /\ ~bookLast.pre.available) =>
           /\ ~bookLast.ret.ok
           /\ book = bookLast.pre
    /\ bookLast.op = "return_book" => book = [bookLast.pre EXCEPT !.available = TRUE]
    /\ (bookLast.op = "borrow_book" /\ bookLast.ret.ok) => ~bookLast.preOnLoan

\* C22 (as claimed): the book made by Book::new(title, author, pages) has
\* that title, that author and that number of pages, and is available.
C22_NewBookHasArguments ==
    bookLast.op = "new" =>
        /\ book.title = bookArgs.title
        /\ book.author = bookArgs.author
        /\ book.pages = bookArgs.pages
        /\ book.available

====
